---------------------------- MODULE Spec2Model ----------------------------
(***************************************************************************)
(* The import pipeline of tiktok-analytics: the management commands        *)
(* import_tiktok_json, import_tiktok_json_old and import_followers_history *)
(* acting on the Post, Follower, Following and FollowerSnapshot tables.    *)
(*                                                                         *)
(* A table is a bag of rows, so that a duplicate row is a state the model  *)
(* can express; the uniqueness constraints of models.py are operators the  *)
(* insert operations consult.  A JSON object is a function from its keys,  *)
(* a JSON list a sequence.  A Python string that the code takes apart      *)
(* (a link, a user name, a title, a number in text form) is a sequence of  *)
(* characters, each the number of its code point; an optional value is     *)
(* the empty set or a singleton.                                           *)
(*                                                                         *)
(* A command run is one action: it reads the store, computes what handle() *)
(* does and leaves the new store, the counters of the summary, the phases  *)
(* the run went through and the error it raised, if any, in `run`.  `pre`  *)
(* is the store as the run found it.  A request to the follower API        *)
(* (views.py) is one action as well: it reads the store and leaves what it *)
(* returns in `response`.                                                  *)
(***************************************************************************)
EXTENDS Bags, FiniteSets, Integers, Sequences, TLC

VARIABLES posts,      \* Post rows
          followers,  \* Follower rows
          following,  \* Following rows
          snapshots,  \* FollowerSnapshot rows
          pre,        \* the four tables as the last run found them
          run,        \* the last run: command, input, options, counters, phases, error
          response,   \* the response of the API that waits to be taken
          reader      \* the request to the API that is between two of its queries

vars == <<posts, followers, following, snapshots, pre, run, response, reader>>

-----------------------------------------------------------------------------
(* Bounds of the model.                                                    *)

MaxRecords == 2      \* records in one export file
MaxClock == 2        \* the latest instant the clock of a command reads
MaxExports == 3      \* export files given to one run of the history command

-----------------------------------------------------------------------------
(* Python helpers.                                                         *)

None == {}
Some(x) == {x}
Value(opt) == CHOOSE x \in opt : TRUE
EmptyDict == <<>>

Get(d, k, default) == IF k \in DOMAIN d THEN d[k] ELSE default

Front(s) == SubSeq(s, 1, Len(s) - 1)
Last(s) == s[Len(s)]
Take(s, n) == SubSeq(s, 1, IF Len(s) < n THEN Len(s) ELSE n)

(* A character is its code point, ord(c).  Printable holds the characters  *)
(* U+0020 to U+005F and Letters the characters U+0061 to U+007A in the     *)
(* order of their code points, so that the inputs can be written with the  *)
(* characters themselves.                                                  *)
Printable ==
    <<" ", "!", "\"", "#", "$", "%", "&", "'", "(", ")", "*", "+", ",",
      "-", ".", "/", "0", "1", "2", "3", "4", "5", "6", "7", "8", "9", ":",
      ";", "<", "=", ">", "?", "@", "A", "B", "C", "D", "E", "F", "G", "H",
      "I", "J", "K", "L", "M", "N", "O", "P", "Q", "R", "S", "T", "U", "V",
      "W", "X", "Y", "Z", "[", "\\", "]", "^", "_">>

Letters ==
    <<"a", "b", "c", "d", "e", "f", "g", "h", "i", "j", "k", "l", "m",
      "n", "o", "p", "q", "r", "s", "t", "u", "v", "w", "x", "y", "z">>

Ord(c) ==
    IF \E i \in 1..Len(Letters) : Letters[i] = c
    THEN 96 + CHOOSE i \in 1..Len(Letters) : Letters[i] = c
    ELSE 31 + CHOOSE i \in 1..Len(Printable) : Printable[i] = c

Text(chars) == [i \in 1..Len(chars) |-> Ord(chars[i])]

Space == Ord(" ")

(* The whitespace of str.strip(), str.split() and of \s in re: every       *)
(* character for which str.isspace() holds.  These are U+0009 to U+000D,   *)
(* U+001C to U+001F, the space, U+0085, U+00A0, U+1680, U+2000 to U+200A,  *)
(* U+2028, U+2029, U+202F, U+205F and U+3000.                              *)
Whitespace ==
    (9..13) \cup (28..32) \cup {133, 160, 5760} \cup (8192..8202)
    \cup {8232, 8233, 8239, 8287, 12288}

(* str.lstrip(), str.rstrip(), str.strip(): every leading or trailing      *)
(* whitespace character is removed.                                        *)
RECURSIVE LStrip(_)
LStrip(s) == IF s # <<>> /\ Head(s) \in Whitespace THEN LStrip(Tail(s)) ELSE s

RECURSIVE RStrip(_)
RStrip(s) == IF s # <<>> /\ Last(s) \in Whitespace THEN RStrip(Front(s)) ELSE s

Strip(s) == RStrip(LStrip(s))

(* str.split('/')[-1] of a link: what follows its last slash, the whole    *)
(* link when it has none.                                                  *)
Slash == Ord("/")

RECURSIVE LastSegment(_)
LastSegment(link) ==
    IF link = <<>> \/ Last(link) = Slash THEN <<>>
    ELSE Append(LastSegment(Front(link)), Last(link))

(* int() of a text.  The text is a number in base ten: whitespace, one     *)
(* optional sign, decimal digits with single underscores between them,     *)
(* whitespace.  A decimal digit is a character of category Nd of any       *)
(* script; DecimalZeros holds the digit zero of every script, which the    *)
(* digits one to nine follow.  The whitespace is that of str.isspace()     *)
(* without U+001C to U+001F.                                               *)
DecimalZeros ==
    {48, 1632, 1776, 1984, 2406, 2534, 2662, 2790, 2918, 3046, 3174, 3302,
     3430, 3558, 3664, 3792, 3872, 4160, 4240, 6112, 6160, 6470, 6608,
     6784, 6800, 6992, 7088, 7232, 7248, 42528, 43216, 43264, 43472, 43504,
     43600, 44016, 65296, 66720, 68912, 69734, 69872, 69942, 70096, 70384,
     70736, 70864, 71248, 71360, 71472, 71904, 72016, 72784, 73040, 73120,
     92768, 92864, 93008, 120782, 120792, 120802, 120812, 120822, 123200,
     123632, 125264, 130032}

Plus == Ord("+")
Minus == Ord("-")
Underscore == Ord("_")

IntWhitespace == Whitespace \ (28..31)

IsDecimal(c) == \E z \in DecimalZeros : c \in z..(z + 9)

DecimalOf(c) == c - (CHOOSE z \in DecimalZeros : c \in z..(z + 9))

RECURSIVE IntStrip(_)
IntStrip(t) ==
    IF t # <<>> /\ Head(t) \in IntWhitespace THEN IntStrip(Tail(t))
    ELSE IF t # <<>> /\ Last(t) \in IntWhitespace THEN IntStrip(Front(t))
    ELSE t

(* The digits and underscores of a number: an underscore stands between    *)
(* two digits.                                                             *)
IsDigits(t) ==
    /\ t # <<>>
    /\ \A i \in 1..Len(t) :
           \/ IsDecimal(t[i])
           \/ /\ t[i] = Underscore
              /\ 1 < i /\ i < Len(t)
              /\ IsDecimal(t[i - 1]) /\ IsDecimal(t[i + 1])

RECURSIVE IntOf(_)
IntOf(t) ==
    IF t = <<>> THEN 0
    ELSE IF Last(t) = Underscore THEN IntOf(Front(t))
    ELSE 10 * IntOf(Front(t)) + DecimalOf(Last(t))

Signed(t) == t # <<>> /\ Head(t) \in {Plus, Minus}

(* The text without the whitespace around it and without its sign.         *)
Unsigned(t) == IF Signed(IntStrip(t)) THEN Tail(IntStrip(t)) ELSE IntStrip(t)

(* int() refuses a text of more than MaxStrDigits digits                  *)
(* (sys.get_int_max_str_digits()): what counts is the text without the     *)
(* whitespace around it, without its sign and without its underscores,     *)
(* leading zeros included.                                                 *)
MaxStrDigits == 4300

DigitCount(t) == Cardinality({i \in 1..Len(t) : t[i] # Underscore})

IsIntText(t) == IsDigits(Unsigned(t)) /\ DigitCount(Unsigned(t)) <= MaxStrDigits

ParseInt(t) ==
    IF Signed(IntStrip(t)) /\ Head(IntStrip(t)) = Minus
    THEN 0 - IntOf(Unsigned(t)) ELSE IntOf(Unsigned(t))

(* A datetime: the instant it names, counted in days, and whether it      *)
(* carries a UTC offset (aware) or none (naive).  A DateTimeField column   *)
(* keeps the instant.                                                      *)
Datetime(instant, aware) == [instant |-> instant, aware |-> aware]

(* Python orders two datetimes only when both are aware or both are naive; *)
(* otherwise the comparison raises TypeError.                              *)
Comparable(a, b) == a.aware = b.aware

(* django.utils.dateparse.parse_datetime.  DateValue holds the texts that  *)
(* end in an offset ('2024-01-15T10:30:00Z'), NaiveValue those without one *)
(* ('2024-01-15 10:30:00'); the result is the datetime the text names.  A  *)
(* text of ImpossibleDates is well formed but names no instant             *)
(* ('2024-02-30T10:00:00'): datetime() raises ValueError for it.  Any      *)
(* other text gives None.                                                  *)
DateValue == [d1 |-> 1, d2 |-> 2, d3 |-> 3]
NaiveValue == [n2 |-> 2]
ImpossibleDates == {"d30"}

ParseDatetimeRaises(s) == s \in ImpossibleDates

ParseDatetime(s) ==
    IF s \in DOMAIN DateValue THEN Some(Datetime(DateValue[s], TRUE))
    ELSE IF s \in DOMAIN NaiveValue THEN Some(Datetime(NaiveValue[s], FALSE))
    ELSE None

(* "date = parse_datetime(text); if not date: raise ValueError" inside a   *)
(* try block: the record is refused either way.                            *)
DateRefused(s) == ParseDatetimeRaises(s) \/ ParseDatetime(s) = None

SetMax(S) == CHOOSE x \in S : \A y \in S : y <= x
SetMin(S) == CHOOSE x \in S : \A y \in S : x <= y

-----------------------------------------------------------------------------
(* The tables (models.py).                                                 *)

Users == {"admin"}

Store == [posts |-> posts, followers |-> followers,
          following |-> following, snapshots |-> snapshots]

EmptyStore == [posts |-> EmptyBag, followers |-> EmptyBag,
               following |-> EmptyBag, snapshots |-> EmptyBag]

(* A table that forgets its rows when one is inserted. *)
KeepOnly(T, r) == SetToBag({r})

Insert(T, r) == T (+) SetToBag({r})

(* Post.post_id is unique: an INSERT of a taken post_id is refused, and    *)
(* filter(post_id=...) finds the row.                                      *)
(* A store without the existence check on post_id. *)
PostIdNeverTaken(T, id) == FALSE

PostIdTaken(T, id) == \E r \in BagToSet(T) : r.post_id = id

(* A Post row of the seven columns an import names; comments, shares and   *)
(* duration are null, hashtags is the empty list and the two flags are     *)
(* False unless the writer sets them (the defaults of models.py).          *)
PostRow(id, title, likes, date, cover, link, views) ==
    [post_id |-> id, title |-> title, likes |-> likes, date |-> date,
     cover_url |-> cover, video_link |-> link, views |-> views,
     comments |-> None, shares |-> None, duration |-> None,
     hashtags |-> Some(<<>>), is_private |-> FALSE, is_pinned |-> FALSE]

(* Follower / Following: unique_together (user, username).                 *)
(* A bulk insert that sees no conflict. *)
NoConflict(T, r) == FALSE

RelConflict(T, r) ==
    \E x \in BagToSet(T) : x.user = r.user /\ x.username = r.username

(* objects.filter(user=user, username=username).exists()                   *)
RelExists(T, user, name) ==
    \E x \in BagToSet(T) : x.user = user /\ x.username = name

RelRow(user, name, date) == [user |-> user, username |-> name, date_followed |-> date]

RelCount(T, user) ==
    BagCardinality([r \in {x \in BagToSet(T) : x.user = user} |-> CopiesIn(r, T)])

(* A bulk insert that replaces the row it conflicts with. *)
RECURSIVE BulkCreateReplace(_, _)
BulkCreateReplace(T, rows) ==
    IF rows = <<>> THEN T
    ELSE LET T1 == BulkCreateReplace(T, Front(rows))
             r == Last(rows)
             old == {x \in BagToSet(T1) : x.user = r.user /\ x.username = r.username}
         IN  Insert(T1 (-) SetToBag(old), r)

(* bulk_create(rows, ignore_conflicts=True): one INSERT ... ON CONFLICT DO *)
(* NOTHING; a row that conflicts with a row of the table, or with a row    *)
(* inserted earlier by the same statement, is dropped.                     *)
RECURSIVE BulkCreateIgnore(_, _)
BulkCreateIgnore(T, rows) ==
    IF rows = <<>> THEN T
    ELSE LET T1 == BulkCreateIgnore(T, Front(rows))
             r == Last(rows)
         IN  IF RelConflict(T1, r) THEN T1 ELSE Insert(T1, r)

-----------------------------------------------------------------------------
(* import_tiktok_json: the current import command.                         *)

ZeroStats == [found |-> 0, created |-> 0, updated |-> 0, skipped |-> 0, errors |-> 0]

(* A tally in which a record that failed is counted as created as well. *)
CountFailedAsCreated(stats, result) ==
    [stats EXCEPT !.found = @ + 1,
                  !.created = @ + (IF result \in {"created", "error"} THEN 1 ELSE 0),
                  !.updated = @ + (IF result = "updated" THEN 1 ELSE 0),
                  !.skipped = @ + (IF result = "skipped" THEN 1 ELSE 0),
                  !.errors = @ + (IF result = "error" THEN 1 ELSE 0)]

Count(stats, result) ==
    [stats EXCEPT !.found = @ + 1,
                  !.created = @ + (IF result = "created" THEN 1 ELSE 0),
                  !.updated = @ + (IF result = "updated" THEN 1 ELSE 0),
                  !.skipped = @ + (IF result = "skipped" THEN 1 ELSE 0),
                  !.errors = @ + (IF result = "error" THEN 1 ELSE 0)]

(* _convert_post_format: an object with a 'Date' key is in TikTok's export *)
(* format; its id is the last path segment of Link cut to 19 characters.   *)
(* The result is the converted object, or nothing when int(Likes) raises.  *)
IdLength == 19

ConvertPostFormat(d) ==
    IF "Date" \in DOMAIN d
    THEN LET link == Get(d, "Link", <<>>)
         IN  IF "Likes" \in DOMAIN d /\ ~IsIntText(d["Likes"])
             THEN None
             ELSE Some([id |-> Take(LastSegment(link), IdLength),
                        title |-> Get(d, "Title", ""),
                        likes |-> IF "Likes" \in DOMAIN d THEN ParseInt(d["Likes"]) ELSE 0,
                        date |-> d["Date"],
                        cover_url |-> Get(d, "CoverImage", link),
                        video_link |-> link])
    ELSE Some(d)

(* JSON null in a field that holds a string.                               *)
JsonNull == "null"

(* Post.title is NOT NULL: the INSERT or UPDATE of a null raises            *)
(* IntegrityError inside Model.save, which marks the enclosing atomic block *)
(* for rollback.  From then on every query in the block raises              *)
(* TransactionManagementError and the block is rolled back when it exits.   *)
NotNullViolated(title) == title = JsonNull

(* _save_post on table T: 'created', 'skipped' or an exception ('error'),  *)
(* the table it leaves and whether the transaction is broken.  The checks  *)
(* run in the order of the code: the id, the dry-run return, the existence *)
(* query, the date, the other keys, the INSERT.                            *)
SavePost(T, d, dry_run, broken) ==
    IF "id" \notin DOMAIN d THEN [result |-> "error", table |-> T, broken |-> broken]
    ELSE IF dry_run THEN [result |-> "created", table |-> T, broken |-> broken]
    ELSE IF broken THEN [result |-> "error", table |-> T, broken |-> TRUE]
    ELSE IF PostIdTaken(T, d["id"]) THEN [result |-> "skipped", table |-> T, broken |-> FALSE]
    ELSE IF "date" \notin DOMAIN d \/ DateRefused(d["date"])
         THEN [result |-> "error", table |-> T, broken |-> FALSE]
    ELSE IF ~({"title", "likes", "cover_url", "video_link"} \subseteq DOMAIN d)
         THEN [result |-> "error", table |-> T, broken |-> FALSE]
    ELSE IF NotNullViolated(d["title"])
         THEN [result |-> "error", table |-> T, broken |-> TRUE]
    ELSE [result |-> "created",
          table |-> Insert(T, PostRow(d["id"], d["title"], d["likes"],
                                      Value(ParseDatetime(d["date"])).instant,
                                      d["cover_url"], d["video_link"], None)),
          broken |-> FALSE]

(* The list of posts _import_posts finds in the file.                      *)
PostsData(file) ==
    IF file.kind = "dict" /\ "Post" \in DOMAIN file.data
    THEN Get(Get(Get(file.data, "Post", EmptyDict), "Posts", EmptyDict), "VideoList", <<>>)
    ELSE IF file.kind = "list" THEN file.data["items"]
    ELSE <<>>

(* The loop of _import_posts: every record is converted and saved inside   *)
(* its own try block; an exception counts one error and the loop goes on.  *)
RECURSIVE ImportPostsLoop(_, _, _)
ImportPostsLoop(T, items, dry_run) ==
    IF items = <<>> THEN [table |-> T, stats |-> ZeroStats, broken |-> FALSE]
    ELSE LET before == ImportPostsLoop(T, Front(items), dry_run)
             conv == ConvertPostFormat(Last(items))
             saved == IF conv = None
                      THEN [result |-> "error", table |-> before.table,
                            broken |-> before.broken]
                      ELSE SavePost(before.table, Value(conv), dry_run, before.broken)
         IN  [table |-> saved.table, stats |-> Count(before.stats, saved.result),
              broken |-> saved.broken]

ImportPosts(T, file, dry_run) == ImportPostsLoop(T, PostsData(file), dry_run)

(* One entry of FansList / Following: the stripped UserName must be non-   *)
(* empty and Date must parse; otherwise the entry raises ValueError.       *)
EntryName(e) == Strip(Get(e, "UserName", <<>>))
EntryDate(e) == ParseDatetime(Get(e, "Date", ""))
EntryValid(e) == EntryName(e) # <<>> /\ ~DateRefused(Get(e, "Date", ""))

(* The loop of _import_followers / _import_following over table T, which   *)
(* the loop only reads: the counters and the rows collected for the bulk   *)
(* insert.  In a dry run no existence query is made; in a broken           *)
(* transaction the query raises.                                           *)
RECURSIVE ImportEntriesLoop(_, _, _, _, _)
ImportEntriesLoop(T, entries, user, dry_run, broken) ==
    IF entries = <<>> THEN [to_create |-> <<>>, stats |-> ZeroStats]
    ELSE LET before == ImportEntriesLoop(T, Front(entries), user, dry_run, broken)
             e == Last(entries)
         IN  IF ~EntryValid(e)
             THEN [before EXCEPT !.stats = Count(@, "error")]
             ELSE IF dry_run
             THEN [before EXCEPT !.stats = Count(@, "created")]
             ELSE IF broken
             THEN [before EXCEPT !.stats = Count(@, "error")]
             ELSE IF RelExists(T, user, EntryName(e))
             THEN [before EXCEPT !.stats = Count(@, "skipped")]
             ELSE [to_create |-> Append(before.to_create,
                                        RelRow(user, EntryName(e), Value(EntryDate(e)).instant)),
                   stats |-> Count(before.stats, "created")]

(* The loop followed by the bulk insert that ignores conflicts.            *)
ImportEntries(T, entries, user, dry_run, broken) ==
    LET loop == ImportEntriesLoop(T, entries, user, dry_run, broken)
    IN  [table |-> IF loop.to_create # <<>> /\ ~dry_run
                   THEN BulkCreateIgnore(T, loop.to_create) ELSE T,
         stats |-> loop.stats]

(* Profile And Settings > Follower > FansList                              *)
FollowersData(file) ==
    IF file.kind = "dict"
    THEN LET profile_settings == Get(file.data, "Profile And Settings", EmptyDict)
         IN  IF "Follower" \in DOMAIN profile_settings
             THEN Get(profile_settings["Follower"], "FansList", <<>>) ELSE <<>>
    ELSE <<>>

(* Profile And Settings > Following > Following                            *)
FollowingData(file) ==
    IF file.kind = "dict"
    THEN LET profile_settings == Get(file.data, "Profile And Settings", EmptyDict)
         IN  IF "Following" \in DOMAIN profile_settings
             THEN Get(profile_settings["Following"], "Following", <<>>) ELSE <<>>
    ELSE <<>>

ImportFollowers(T, file, user, dry_run, broken) ==
    ImportEntries(T, FollowersData(file), user, dry_run, broken)

ImportFollowing(T, file, user, dry_run, broken) ==
    ImportEntries(T, FollowingData(file), user, dry_run, broken)

(* datetime.now(): the instants the wall clock may read.  The clock is not *)
(* bound by the data, and it may be set back: whatever the store holds, a  *)
(* reading may come before every instant that a stored snapshot names,     *)
(* equal any of them, fall between two of them or come after all of them.  *)
Now == 0..MaxClock

SnapshotRow(user, date, nfollowers, nfollowing) ==
    [user |-> user, snapshot_date |-> date,
     follower_count |-> nfollowers, following_count |-> nfollowing]

(* FollowerSnapshot: unique_together (user, snapshot_date).                 *)
SnapshotTaken(S, user, date) ==
    \E r \in BagToSet(S) : r.user = user /\ r.snapshot_date = date

(* _create_snapshot at the instant now: the counts are read from the       *)
(* top-level keys Follower and Following of a dict file, from the tables   *)
(* for a list file; a row is created when one of them is positive.  Its    *)
(* queries raise in a broken transaction, its INSERT raises IntegrityError *)
(* when the user has a snapshot of that instant, and nothing in the        *)
(* command catches either.                                                 *)
FollowerCount(st, user, file) ==
    IF file.kind = "dict"
    THEN Len(Get(Get(file.data, "Follower", EmptyDict), "FansList", <<>>))
    ELSE RelCount(st.followers, user)

FollowingCount(st, user, file) ==
    IF file.kind = "dict"
    THEN Len(Get(Get(file.data, "Following", EmptyDict), "Following", <<>>))
    ELSE RelCount(st.following, user)

CreateSnapshot(st, user, file, broken, now) ==
    LET follower_count == FollowerCount(st, user, file)
        following_count == FollowingCount(st, user, file)
    IN  IF broken /\ file.kind # "dict"
        THEN [store |-> st, raised |-> "TransactionManagementError"]
        ELSE IF follower_count > 0 \/ following_count > 0
        THEN IF broken THEN [store |-> st, raised |-> "TransactionManagementError"]
             ELSE IF SnapshotTaken(st.snapshots, user, now)
             THEN [store |-> st, raised |-> "IntegrityError"]
             ELSE [store |-> [st EXCEPT !.snapshots =
                                 Insert(@, SnapshotRow(user, now,
                                                       follower_count, following_count))],
                   raised |-> "none"]
        ELSE [store |-> st, raised |-> "none"]

(* _clear_existing_data: every Post row; the user's Follower and Following *)
(* rows.                                                                   *)
NotOf(T, user) == [r \in {x \in BagToSet(T) : x.user # user} |-> CopiesIn(r, T)]

(* A clearing that takes no notice of which kinds are imported. *)
ClearEverything(st, user, clear_posts, clear_followers) ==
    [st EXCEPT !.posts = EmptyBag,
               !.followers = NotOf(@, user),
               !.following = NotOf(@, user)]

ClearExistingData(st, user, clear_posts, clear_followers) ==
    [st EXCEPT !.posts = IF clear_posts THEN EmptyBag ELSE @,
               !.followers = IF clear_followers THEN NotOf(@, user) ELSE @,
               !.following = IF clear_followers THEN NotOf(@, user) ELSE @]

(* The tables _clear_existing_data looks at, in its order.  The deletes    *)
(* are committed one by one.                                               *)
ClearedTables(clear_posts, clear_followers) ==
    (IF clear_posts THEN <<"posts">> ELSE <<>>)
    \o (IF clear_followers THEN <<"followers">> ELSE <<>>)

(* One block of _clear_existing_data on the store it finds: the posts are  *)
(* deleted when there is one; the Follower rows of the user are deleted,   *)
(* and the Following rows are to follow, when there is one of either.      *)
ClearTable(st, user, table) ==
    IF table = "posts"
    THEN [store |-> [st EXCEPT !.posts = EmptyBag], then |-> <<>>]
    ELSE IF table = "followers"
    THEN IF RelCount(st.followers, user) > 0 \/ RelCount(st.following, user) > 0
         THEN [store |-> [st EXCEPT !.followers = NotOf(@, user)], then |-> <<"following">>]
         ELSE [store |-> st, then |-> <<>>]
    ELSE [store |-> [st EXCEPT !.following = NotOf(@, user)], then |-> <<>>]

(* A clear that does not look at dry_run. *)
ClearRequested(opts) == opts.clear_existing

(* handle: "if clear_existing and not dry_run".                            *)
ClearWanted(opts) == opts.clear_existing /\ ~opts.dry_run

NoStats == [posts |-> ZeroStats, followers |-> ZeroStats, following |-> ZeroStats]

(* An abort that comes after the posts were cleared. *)
AbortCleared(st, phases) ==
    [store |-> [st EXCEPT !.posts = EmptyBag], stats |-> NoStats,
     phases |-> Append(phases, "Aborted"), raised |-> "CommandError"]

Abort(st, phases) ==
    [store |-> st, stats |-> NoStats, phases |-> Append(phases, "Aborted"),
     raised |-> "CommandError"]

(* The body of "with transaction.atomic()" of handle, on the store st.     *)
ImportBody(st, file, opts, now) ==
    LET import_posts == ~opts.followers_only
        import_followers == ~opts.posts_only
        p == IF import_posts THEN ImportPosts(st.posts, file, opts.dry_run)
             ELSE [table |-> st.posts, stats |-> ZeroStats, broken |-> FALSE]
        f == IF import_followers
             THEN ImportFollowers(st.followers, file, opts.user, opts.dry_run, p.broken)
             ELSE [table |-> st.followers, stats |-> ZeroStats]
        g == IF import_followers
             THEN ImportFollowing(st.following, file, opts.user, opts.dry_run, p.broken)
             ELSE [table |-> st.following, stats |-> ZeroStats]
        written == [st EXCEPT !.posts = p.table, !.followers = f.table,
                              !.following = g.table]
        snap == IF import_followers /\ ~opts.dry_run
                THEN CreateSnapshot(written, opts.user, file, p.broken, now)
                ELSE [store |-> written, raised |-> "none"]
    IN  snap @@ [broken |-> p.broken,
                 stats |-> [posts |-> p.stats, followers |-> f.stats,
                            following |-> g.stats]]

(* handle of import_tiktok_json on the store st: the store it leaves, the  *)
(* counters, the phases and the error the caller receives.  The dry run    *)
(* raises CommandError inside the atomic block, which rolls the block back *)
(* and is caught again by handle.  A block that was marked for rollback is *)
(* rolled back when it exits; an exception other than CommandError leaves  *)
(* handle.                                                                 *)
ExitBlock(cleared, opts, body) ==
    LET before == <<"Idle", "Reading", "Parsing">>
                  \o (IF ClearWanted(opts) THEN <<"ClearExisting">> ELSE <<>>)
                  \o <<"Reconciling">>
    IN  IF body.raised # "none"
        THEN [store |-> cleared, stats |-> body.stats,
              phases |-> before \o <<"Rollback", "Aborted">>, raised |-> body.raised]
        ELSE IF opts.dry_run \/ body.broken
        THEN [store |-> cleared, stats |-> body.stats,
              phases |-> before \o <<"Rollback", "Summarized">>, raised |-> "none"]
        ELSE [store |-> body.store, stats |-> body.stats,
              phases |-> before \o <<"Commit", "Summarized">>, raised |-> "none"]

Cleared(st, opts) ==
    IF ClearWanted(opts)
    THEN ClearExistingData(st, opts.user, ~opts.followers_only, ~opts.posts_only)
    ELSE st

Handle(st, file, opts, now) ==
    IF file.status = "missing" THEN Abort(st, <<"Idle">>)
    ELSE IF opts.user \notin Users THEN Abort(st, <<"Idle">>)
    ELSE IF file.status = "garbage" THEN Abort(st, <<"Idle", "Reading", "Parsing">>)
    ELSE ExitBlock(Cleared(st, opts), opts,
                   ImportBody(Cleared(st, opts), file, opts, now))

-----------------------------------------------------------------------------
(* import_tiktok_json_old: the earlier import command, which has the       *)
(* duplicate policies (skip by default, --update-duplicates).              *)

(* The fields of Post (models.py); Model.__init__ raises TypeError for a   *)
(* keyword argument that names none of them.                               *)
PostFields == {"id", "post_id", "title", "likes", "date", "cover_url", "video_link",
               "views", "comments", "shares", "duration", "hashtags",
               "is_private", "is_pinned", "created_at", "updated_at"}

ModelAccepts(kwargs) == kwargs \subseteq PostFields

(* The keyword arguments _process_post passes to Post.objects.create.      *)
OldCreateKwargs == {"post_id", "title", "likes", "date", "cover_url", "video_link",
                    "views", "comments", "shares", "bookmarks", "duration",
                    "hashtags", "music", "location"}

OldRequired == {"id", "title", "likes", "date", "cover_url", "video_link"}

OptionalKey(d, k) == IF k \in DOMAIN d THEN Some(d[k]) ELSE None

(* The assignments of the update branch followed by save(): the fields of  *)
(* the row the record overwrites.                                          *)
UpdatedRow(row, d) ==
    [row EXCEPT !.title = d["title"], !.likes = d["likes"],
                !.date = Value(ParseDatetime(d["date"])).instant,
                !.cover_url = d["cover_url"], !.video_link = d["video_link"],
                !.views = OptionalKey(d, "views"),
                !.comments = OptionalKey(d, "comments"),
                !.shares = OptionalKey(d, "shares"),
                !.duration = OptionalKey(d, "duration"),
                !.hashtags = Some(Get(d, "hashtags", <<>>))]

(* _process_post on table T.                                               *)
ProcessPost(T, d, update_duplicates, dry_run, broken) ==
    IF ~(OldRequired \subseteq DOMAIN d)
    THEN [result |-> "error", table |-> T, broken |-> broken]
    ELSE IF DateRefused(d["date"])
    THEN [result |-> "error", table |-> T, broken |-> broken]
    ELSE IF broken THEN [result |-> "error", table |-> T, broken |-> TRUE]
    ELSE IF PostIdTaken(T, d["id"])
    THEN IF update_duplicates /\ ~dry_run
         THEN IF NotNullViolated(d["title"])
              THEN [result |-> "error", table |-> T, broken |-> TRUE]
              ELSE LET existing == CHOOSE r \in BagToSet(T) : r.post_id = d["id"]
                   IN  [result |-> "updated",
                        table |-> Insert(T (-) SetToBag({existing}),
                                         UpdatedRow(existing, d)),
                        broken |-> FALSE]
         ELSE [result |-> "skipped", table |-> T, broken |-> FALSE]
    ELSE IF dry_run THEN [result |-> "created", table |-> T, broken |-> FALSE]
    ELSE IF ~ModelAccepts(OldCreateKwargs)
    THEN [result |-> "error", table |-> T, broken |-> FALSE]
    ELSE IF NotNullViolated(d["title"])
    THEN [result |-> "error", table |-> T, broken |-> TRUE]
    ELSE [result |-> "created",
          table |-> Insert(T, UpdatedRow(PostRow(d["id"], d["title"], d["likes"],
                                                 Value(ParseDatetime(d["date"])).instant,
                                                 d["cover_url"], d["video_link"],
                                                 OptionalKey(d, "views")), d)),
          broken |-> FALSE]

RECURSIVE ProcessPostsLoop(_, _, _, _)
ProcessPostsLoop(T, items, update_duplicates, dry_run) ==
    IF items = <<>> THEN [table |-> T, stats |-> ZeroStats, broken |-> FALSE]
    ELSE LET before == ProcessPostsLoop(T, Front(items), update_duplicates, dry_run)
             done == ProcessPost(before.table, Last(items), update_duplicates, dry_run,
                                 before.broken)
         IN  [table |-> done.table, stats |-> Count(before.stats, done.result),
              broken |-> done.broken]

(* handle of import_tiktok_json_old.  The dry run raises Exception inside  *)
(* the atomic block; nothing catches it, so the block is rolled back and   *)
(* the caller receives the exception instead of the summary.               *)
OldHandle(st, file, opts) ==
    IF file.status = "missing" THEN Abort(st, <<"Idle">>)
    ELSE IF file.status = "garbage" \/ file.kind # "list"
    THEN Abort(st, <<"Idle", "Reading", "Parsing">>)
    ELSE LET cleared == IF ClearWanted(opts) THEN [st EXCEPT !.posts = EmptyBag] ELSE st
             loop == ProcessPostsLoop(cleared.posts, file.data["items"],
                                      opts.update_duplicates, opts.dry_run)
             before == <<"Idle", "Reading", "Parsing">>
                       \o (IF ClearWanted(opts) THEN <<"ClearExisting">> ELSE <<>>)
                       \o <<"Reconciling">>
             stats == [NoStats EXCEPT !.posts = loop.stats]
         IN  IF opts.dry_run
             THEN [store |-> cleared, stats |-> stats,
                   phases |-> before \o <<"Rollback", "Aborted">>, raised |-> "Exception"]
             ELSE IF loop.broken
             THEN [store |-> cleared, stats |-> stats,
                   phases |-> before \o <<"Rollback", "Summarized">>, raised |-> "none"]
             ELSE [store |-> [cleared EXCEPT !.posts = loop.table], stats |-> stats,
                   phases |-> before \o <<"Commit", "Summarized">>, raised |-> "none"]

-----------------------------------------------------------------------------
(* import_followers_history: snapshots from a series of exports.           *)

Names(entries) == {EntryName(entries[i]) : i \in 1..Len(entries)} \ {<<>>}

(* One loop of _extract_export_info: the latest Date that parses among the *)
(* entries that have a UserName.  parse_datetime raises ValueError for an  *)
(* impossible date, and "date > latest" raises TypeError when one of the   *)
(* two is aware and the other naive; either exception leaves the loop.     *)
RECURSIVE LatestDate(_)
LatestDate(entries) ==
    IF entries = <<>> THEN [raised |-> FALSE, latest |-> None]
    ELSE LET before == LatestDate(Front(entries))
             item == Last(entries)
             date == EntryDate(item)
         IN  IF before.raised \/ EntryName(item) = <<>> THEN before
             ELSE IF ParseDatetimeRaises(Get(item, "Date", ""))
             THEN [before EXCEPT !.raised = TRUE]
             ELSE IF date = None THEN before
             ELSE IF before.latest = None THEN [before EXCEPT !.latest = date]
             ELSE IF ~Comparable(Value(date), Value(before.latest))
             THEN [before EXCEPT !.raised = TRUE]
             ELSE IF Value(date).instant > Value(before.latest).instant
             THEN [before EXCEPT !.latest = date]
             ELSE before

(* datetime.fromtimestamp(os.path.getmtime(filename)): a naive datetime.   *)
FromTimestamp(mtime) == Datetime(mtime, FALSE)

(* _extract_export_info: the export, or nothing when one of its loops      *)
(* raises.  The date falls back to the file's mtime.                       *)
ExtractExportInfo(file) ==
    LET profile_settings == Get(file.data, "Profile And Settings", EmptyDict)
        followers_data == Get(Get(profile_settings, "Follower", EmptyDict), "FansList", <<>>)
        following_data == Get(Get(profile_settings, "Following", EmptyDict), "Following", <<>>)
        latest_follower_date == LatestDate(followers_data)
        latest_following_date == LatestDate(following_data)
        export_date == IF latest_follower_date.latest # None
                       THEN latest_follower_date.latest
                       ELSE latest_following_date.latest
    IN  IF latest_follower_date.raised \/ latest_following_date.raised THEN None
        ELSE Some([date |-> IF export_date # None THEN Value(export_date)
                            ELSE FromTimestamp(file.mtime),
                   followers |-> Names(followers_data),
                   following |-> Names(following_data),
                   follower_count |-> Cardinality(Names(followers_data)),
                   following_count |-> Cardinality(Names(following_data))])

(* The exports in the order the files were given. *)
AsGiven(exports) == exports

(* exports.sort(key=date) raises TypeError when the dates of two exports   *)
(* cannot be compared: no sort can place a naive date among aware ones     *)
(* without comparing the two kinds.                                        *)
SortRaises(exports) ==
    \E i, j \in 1..Len(exports) : ~Comparable(exports[i].date, exports[j].date)

(* exports.sort(key=date): a stable sort.                                  *)
RECURSIVE InsertSorted(_, _)
InsertSorted(sorted, x) ==
    IF sorted = <<>> THEN <<x>>
    ELSE IF Last(sorted).date.instant <= x.date.instant THEN Append(sorted, x)
    ELSE Append(InsertSorted(Front(sorted), x), Last(sorted))

RECURSIVE SortByDate(_)
SortByDate(exports) ==
    IF exports = <<>> THEN <<>>
    ELSE InsertSorted(SortByDate(Front(exports)), Last(exports))

(* The export a period is measured from, were it the first of the series. *)
FirstExport(exports, i) == exports[1]

(* prev_export = exports[i - 1]                                            *)
PrevExport(exports, i) == exports[i - 1]

(* A total that keeps only the names of the last period. *)
Overwrite(total, names) == names

(* set.update                                                              *)
Update(total, names) == total \cup names

NoAnalysis == [snapshots |-> <<>>, total_gained |-> {}, total_lost |-> {},
               changes |-> <<>>]

(* _analyze_history: the loop over the sorted exports.  Every export gives *)
(* a snapshot; every export but the first gives a change against the       *)
(* export before it and adds its gained and lost followers to the totals.  *)
RECURSIVE AnalyzeHistory(_)
AnalyzeHistory(exports) ==
    IF exports = <<>> THEN NoAnalysis
    ELSE LET analysis == AnalyzeHistory(Front(exports))
             i == Len(exports)
             export == exports[i]
             snapshot == [date |-> export.date,
                          follower_count |-> export.follower_count,
                          following_count |-> export.following_count,
                          followers |-> export.followers,
                          following |-> export.following]
             sets(gf, lf, gg, lg) ==
                 [gained_followers |-> gf, lost_followers |-> lf,
                  gained_following |-> gg, lost_following |-> lg]
         IN  IF i > 1
             THEN LET prev_export == PrevExport(exports, i)
                      gained_followers == export.followers \ prev_export.followers
                      lost_followers == prev_export.followers \ export.followers
                      gained_following == export.following \ prev_export.following
                      lost_following == prev_export.following \ export.following
                      change ==
                          [from_date |-> prev_export.date, to_date |-> export.date,
                           followers_gained |-> gained_followers,
                           followers_lost |-> lost_followers,
                           following_gained |-> gained_following,
                           following_lost |-> lost_following,
                           net_followers |-> Cardinality(gained_followers)
                                                 - Cardinality(lost_followers),
                           net_following |-> Cardinality(gained_following)
                                                 - Cardinality(lost_following)]
                  IN  [snapshots |->
                           Append(analysis.snapshots,
                                  snapshot @@ sets(gained_followers, lost_followers,
                                                   gained_following, lost_following)),
                       total_gained |-> Update(analysis.total_gained, gained_followers),
                       total_lost |-> Update(analysis.total_lost, lost_followers),
                       changes |-> Append(analysis.changes, change)]
             ELSE [analysis EXCEPT
                       !.snapshots = Append(@, snapshot @@ sets({}, {}, {}, {}))]

(* A store that inserts a snapshot row whether or not the key is taken. *)
AlwaysCreate(S, user, date, nfollowers, nfollowing) ==
    S (+) SetToBag({[user |-> user, snapshot_date |-> date,
                     follower_count |-> nfollowers, following_count |-> nfollowing]})

(* FollowerSnapshot.objects.update_or_create(user, snapshot_date,          *)
(* defaults = the two counts).                                             *)
UpdateOrCreate(S, user, date, nfollowers, nfollowing) ==
    IF \E r \in BagToSet(S) : r.user = user /\ r.snapshot_date = date
    THEN LET old == CHOOSE r \in BagToSet(S) : r.user = user /\ r.snapshot_date = date
         IN  Insert(S (-) SetToBag({old}),
                    [old EXCEPT !.follower_count = nfollowers,
                                !.following_count = nfollowing])
    ELSE Insert(S, SnapshotRow(user, date, nfollowers, nfollowing))

(* _import_history: one upsert per snapshot of the analysis, in date order. *)
RECURSIVE ImportHistory(_, _, _)
ImportHistory(S, exports, user) ==
    IF exports = <<>> THEN S
    ELSE LET e == Last(exports)
         IN  UpdateOrCreate(ImportHistory(S, Front(exports), user), user, e.date.instant,
                            e.follower_count, e.following_count)

(* An exception other than CommandError that leaves handle after the files *)
(* were read.                                                              *)
Raise(st, phases, error) == [Abort(st, phases) EXCEPT !.raised = error]

(* handle of import_followers_history on the files given.  An exception of *)
(* the loop that reads the files becomes CommandError; the sort is outside *)
(* that loop.                                                              *)
HistoryHandle(st, files, opts) ==
    IF opts.user \notin Users THEN Abort(st, <<"Idle">>)
    ELSE IF \E i \in 1..Len(files) : files[i].status = "missing"
    THEN Abort(st, <<"Idle">>)
    ELSE IF \E i \in 1..Len(files) :
                \/ files[i].status = "garbage" \/ files[i].kind # "dict"
                \/ ExtractExportInfo(files[i]) = None
    THEN Abort(st, <<"Idle", "Reading", "Parsing">>)
    ELSE IF SortRaises([i \in 1..Len(files) |-> Value(ExtractExportInfo(files[i]))])
    THEN Raise(st, <<"Idle", "Reading", "Parsing">>, "TypeError")
    ELSE LET exports == SortByDate([i \in 1..Len(files) |->
                                       Value(ExtractExportInfo(files[i]))])
             analysis == AnalyzeHistory(exports)
         IN  [store |-> IF opts.dry_run THEN st
                        ELSE [st EXCEPT !.snapshots =
                                 ImportHistory(@, analysis.snapshots, opts.user)],
              stats |-> NoStats,
              analysis |-> analysis,
              phases |-> <<"Idle", "Reading", "Parsing", "Analyzing">>
                         \o (IF opts.dry_run THEN <<>> ELSE <<"Commit">>)
                         \o <<"Summarized">>,
              raised |-> "none"]

-----------------------------------------------------------------------------
(* views.py: the follower API (FollowerViewSet).  An instant is counted in *)
(* days.                                                                   *)

NoResponse == [view |-> "none"]

(* set(Model.objects.filter(user=user).values_list('username', flat=True)) *)
Usernames(T, user) == {r.username : r \in {x \in BagToSet(T) : x.user = user}}

(* Names that are in one of the two sets. *)
Either(F, G) == F \cup G

(* mutuals = followers & following                                         *)
Mutuals(F, G) == F \cap G

(* Python's float: a / b is the double nearest to the quotient, a number   *)
(* m * 2^-k with 2^52 <= m < 2^53.  Exponent is the e with                 *)
(* 2^e <= a / b < 2^(e + 1), for a, b > 0.                                 *)
MantissaBits == 52

RECURSIVE ExponentUp(_, _)
ExponentUp(a, b) == IF 2 * b <= a THEN 1 + ExponentUp(a, 2 * b) ELSE 0

RECURSIVE ExponentDown(_, _)
ExponentDown(a, b) == IF a >= b THEN 0 ELSE ExponentDown(2 * a, b) - 1

Exponent(a, b) == IF a >= b THEN ExponentUp(a, b) ELSE ExponentDown(a, b)

(* (x * 2^k) % b, eight doublings at a time; b is less than 2^23.          *)
RECURSIVE TimesPow2Mod(_, _, _)
TimesPow2Mod(x, k, b) ==
    IF k = 0 THEN x % b
    ELSE IF k >= 8 THEN TimesPow2Mod((2^8 * (x % b)) % b, k - 8, b)
    ELSE TimesPow2Mod((2 * (x % b)) % b, k - 1, b)

(* m * b - a * 2^k for the mantissa m of the double a / b: what the        *)
(* division rounds away, times b.  The remainder of a * 2^k by b is never  *)
(* half of b for numbers of this size.                                     *)
DivisionError(a, b) ==
    LET r == TimesPow2Mod(a, MantissaBits - Exponent(a, b), b)
    IN  IF 2 * r < b THEN 0 - r ELSE b - r

(* round(a / b, 2) in hundredths, for b > 0.  round() gives the hundredth  *)
(* nearest to the double a / b, the even one of two that are equally near. *)
(* When the quotient lies halfway between two hundredths the double        *)
(* decides: it is the quotient itself, or lies above it, or below it.      *)
RECURSIVE Round2(_, _)
Round2(a, b) ==
    IF a < 0 THEN 0 - Round2(0 - a, b)
    ELSE LET q == (100 * a) \div b
             rem == (100 * a) % b
         IN  IF 2 * rem < b THEN q
             ELSE IF 2 * rem > b THEN q + 1
             ELSE IF DivisionError(a, b) > 0 THEN q + 1
             ELSE IF DivisionError(a, b) < 0 THEN q
             ELSE IF q % 2 = 0 THEN q ELSE q + 1

(* A ratio that is 0 when nothing is followed. *)
ZeroRatio(a, b) == Some(IF b > 0 THEN Round2(a, b) ELSE 0)

Ratio(a, b) == IF b > 0 THEN Some(Round2(a, b)) ELSE None

(* objects.filter(user=user, date_followed__gte=since).count()             *)
GainedSince(T, user, since) ==
    BagCardinality([r \in {x \in BagToSet(T) : x.user = user /\ x.date_followed >= since}
                      |-> CopiesIn(r, T)])

(* top_dates: the days on which the user gained followers with the number  *)
(* gained on each, the largest number first, ten at most.  An instant is   *)
(* counted in days, so that TruncDate leaves it as it is.  order_by does   *)
(* not tell days with the same number apart: the database may return them  *)
(* in any order.                                                           *)
TopAcquisitionDates(T, user) ==
    LET rows == {x \in BagToSet(T) : x.user = user}
        groups == {[date |-> d,
                    followers_gained |->
                        BagCardinality([r \in {x \in rows : x.date_followed = d}
                                          |-> CopiesIn(r, T)])] :
                      d \in {x.date_followed : x \in rows}}
        n == Cardinality(groups)
    IN  {Take(s, 10) :
            s \in {t \in [1..n -> groups] :
                      /\ \A i, j \in 1..n : i # j => t[i] # t[j]
                      /\ \A i, j \in 1..n :
                             i < j => t[i].followers_gained >= t[j].followers_gained}}

(* stats_data, of what the queries of the view returned: the names of the  *)
(* followers and of the followed, the four counts and the top dates.       *)
FollowerStats(user, F, G, gained, top_dates) ==
    LET mutuals == Mutuals(F, G)
        followers_only == F \ G
        following_only == G \ F
    IN  [view |-> "stats",
         request |-> [user |-> user, week_ago |-> gained.week_ago,
                      month_ago |-> gained.month_ago],
         read |-> [followers |-> F, following |-> G],
         total_followers |-> Cardinality(F),
         total_following |-> Cardinality(G),
         mutuals_count |-> Cardinality(mutuals),
         followers_only_count |-> Cardinality(followers_only),
         following_only_count |-> Cardinality(following_only),
         follower_ratio |-> Ratio(Cardinality(F), Cardinality(G)),
         weekly_growth |-> [followers |-> gained.weekly_followers_gained,
                            following |-> gained.weekly_following_gained],
         monthly_growth |-> [followers |-> gained.monthly_followers_gained,
                             following |-> gained.monthly_following_gained],
         top_acquisition_dates |-> top_dates]

(* The first of two numbers, whichever is larger. *)
FirstOf(a, b) == a

(* max(a, b)                                                               *)
Max(a, b) == IF a >= b THEN a ELSE b

(* growth: the days each period reaches back; 'all' and any other word     *)
(* reach back without limit.                                               *)
WeekDays == 7
MonthDays == 30
YearDays == 365
PeriodDays == [week |-> WeekDays, month |-> MonthDays, year |-> YearDays]

StartDate(period, now) ==
    IF period \in DOMAIN PeriodDays THEN Some(now - PeriodDays[period]) ELSE None

(* filter(user=user), filter(snapshot_date__gte=start_date)                *)
SnapshotsSince(S, user, start_date) ==
    LET keep == {r \in BagToSet(S) :
                    /\ r.user = user
                    /\ start_date # None => r.snapshot_date >= Value(start_date)}
    IN  [r \in keep |-> CopiesIn(r, S)]

(* order_by('snapshot_date')                                               *)
RECURSIVE OrderBySnapshotDate(_)
OrderBySnapshotDate(S) ==
    IF BagToSet(S) = {} THEN <<>>
    ELSE LET first == CHOOSE r \in BagToSet(S) :
                          \A x \in BagToSet(S) : r.snapshot_date <= x.snapshot_date
         IN  <<first>> \o OrderBySnapshotDate(S (-) SetToBag({first}))

(* One pass of the loop of growth: the point of a snapshot, given the      *)
(* snapshot before it, if there is one.                                    *)
GrowthPoint(snapshot, prev_snapshot) ==
    LET prev == IF prev_snapshot # None THEN Value(prev_snapshot) ELSE snapshot
        deltas ==
            IF prev_snapshot # None
            THEN [followers_gained |-> Max(snapshot.follower_count - prev.follower_count, 0),
                  followers_lost |-> Max(prev.follower_count - snapshot.follower_count, 0),
                  following_gained |-> Max(snapshot.following_count - prev.following_count, 0),
                  following_lost |-> Max(prev.following_count - snapshot.following_count, 0),
                  net_follower_growth |-> snapshot.follower_count - prev.follower_count,
                  net_following_growth |-> snapshot.following_count - prev.following_count]
            ELSE [followers_gained |-> 0, followers_lost |-> 0,
                  following_gained |-> 0, following_lost |-> 0,
                  net_follower_growth |-> 0, net_following_growth |-> 0]
    IN  [date |-> snapshot.snapshot_date,
         follower_count |-> snapshot.follower_count,
         following_count |-> snapshot.following_count,
         follower_ratio |-> Ratio(snapshot.follower_count, snapshot.following_count)]
        @@ deltas

(* A loop that keeps the first snapshot as the one to compare with. *)
FirstSnapshot(rows, i) == IF i > 1 THEN Some(rows[1]) ELSE None

(* prev_snapshot = None before the loop, prev_snapshot = snapshot at the   *)
(* end of every pass: the snapshot that pass i compares with.              *)
PrevSnapshot(rows, i) == IF i > 1 THEN Some(rows[i - 1]) ELSE None

Growth(st, user, period, now) ==
    LET rows == OrderBySnapshotDate(SnapshotsSince(st.snapshots, user,
                                                   StartDate(period, now)))
        growth_data == [i \in 1..Len(rows) |->
                           GrowthPoint(rows[i], PrevSnapshot(rows, i))]
    IN  [view |-> "growth",
         request |-> [user |-> user, period |-> period, now |-> now],
         period |-> period,
         data_points |-> Len(growth_data),
         growth |-> growth_data]

-----------------------------------------------------------------------------
(* The inputs: export files and options.                                   *)

P1 == [i \in 1..IdLength |-> Ord("7")]     \* two post ids of 19 characters
P2 == [i \in 1..IdLength |-> Ord("8")]
(* 'https://t.co/video/' and a last segment *)
Url(segment) ==
    Text(<<"h", "t", "t", "p", "s", ":", "/", "/", "t", ".", "c", "o", "/",
           "v", "i", "d", "e", "o", "/">>) \o segment
Cover == Url(Text(<<"c">>))

(* Post objects in the internal format. *)
PostA == [id |-> P1, title |-> "t1", likes |-> 1, date |-> "d1",
          cover_url |-> Cover, video_link |-> Url(P1)]
PostB == [id |-> P1, title |-> "t2", likes |-> 2, date |-> "d2",
          cover_url |-> Cover, video_link |-> Url(P1), views |-> 7]
PostC == [id |-> P2, title |-> "t1", likes |-> 1, date |-> "d1",
          cover_url |-> Cover, video_link |-> Url(P2)]
PostBadDate == [PostC EXCEPT !.date = "bad"]
PostNoLinks == [id |-> P2, title |-> "t1"]
PostNull == [PostB EXCEPT !.title = JsonNull]
PostNoId == [title |-> "t1", likes |-> 1, date |-> "d1",
             cover_url |-> Cover, video_link |-> Url(P2)]
(* A post object in TikTok's export format; its link ends in 20 characters *)
(* of which the first 19 are P2.                                           *)
PostExport == [Date |-> "d2", Link |-> Url(P2 \o Text(<<"1">>)), Title |-> "t2",
               Likes |-> Text(<<"1", "2">>)]
(* The same with Likes '\t+1_2' followed by U+00A0, and with Likes '1__2'.  *)
PostExportSigned ==
    [PostExport EXCEPT !.Likes = <<9>> \o Text(<<"+", "1", "_", "2">>) \o <<160>>]
PostExportBadLikes == [PostExport EXCEPT !.Likes = Text(<<"1", "_", "_", "2">>)]

(* A post with a negative number of likes. *)
PostNegative == [PostC EXCEPT !.likes = -5]

PostObjects == {PostA, PostB, PostC, PostBadDate, PostNoLinks, PostNoId, PostNull,
                PostExport, PostExportSigned, PostExportBadLikes, PostNegative}

NameA == Text(<<"a">>)
NameB == Text(<<"b">>)
EntryA == [UserName |-> NameA, Date |-> "d1"]
(* The name 'a' between a space, a tab and U+000B and a line feed, U+00A0   *)
(* and U+2028.                                                             *)
EntryA2 == [UserName |-> <<Space, 9, 11>> \o NameA \o <<10, 160, 8232>>, Date |-> "d2"]
EntryB == [UserName |-> NameB, Date |-> "d2"]
EntryBadDate == [UserName |-> NameB, Date |-> "bad"]
EntryNoName == [Date |-> "d1"]
EntryA3 == [UserName |-> NameA, Date |-> "d3"]
EntryNaive == [UserName |-> NameB, Date |-> "n2"]
EntryImpossible == [UserName |-> NameA, Date |-> "d30"]
(* A UserName of U+000B and U+00A0: nothing is left of it when stripped.   *)
EntryBlank == [UserName |-> <<11, 160>>, Date |-> "d3"]

Entries == {EntryA, EntryA2, EntryB, EntryBlank}

SeqsUpTo(S, n) == UNION {[1..k -> S] : k \in 0..n}

With(d, present, k, v) == IF present THEN (k :> v) @@ d ELSE d

ListFile(items) == [status |-> "ok", kind |-> "list", data |-> [items |-> items]]

(* A dict file: the posts, the followers and the following under their     *)
(* documented keys; rootFans is a FansList under a top-level Follower key. *)
DictFile(ps, fans, fol, rootFans) ==
    LET profile == With(With(EmptyDict, fans # <<>>, "Follower", [FansList |-> fans]),
                        fol # <<>>, "Following", [Following |-> fol])
    IN  [status |-> "ok", kind |-> "dict",
         data |-> With(With(With([exported |-> TRUE],
                                 ps # <<>>, "Post", [Posts |-> [VideoList |-> ps]]),
                            profile # EmptyDict, "Profile And Settings", profile),
                       rootFans # <<>>, "Follower", [FansList |-> rootFans])]

MissingFile == [status |-> "missing", kind |-> "none", data |-> [exported |-> FALSE]]
GarbageFile == [status |-> "garbage", kind |-> "none", data |-> [exported |-> FALSE]]

Flags == [dry_run : BOOLEAN, clear_existing : BOOLEAN,
          posts_only : BOOLEAN, followers_only : BOOLEAN, user : {"admin", "ghost"}]

OldFlags == [dry_run : BOOLEAN, clear_existing : BOOLEAN, update_duplicates : BOOLEAN]

(* A Post row made outside the import: pinned, with values no file holds.  *)
PinnedRow == [PostRow(P1, "old", 9, 3, Cover, Url(P1), Some(5)) EXCEPT !.is_pinned = TRUE]

-----------------------------------------------------------------------------
(* Actions.  The commands are entered one at a time: a command runs when   *)
(* no other run is going on or being reported; Return is the command       *)
(* returning to the shell and the client taking the response of the API,   *)
(* after which the report and the response are gone.  run.runs counts the  *)
(* consecutive runs of one command on one input, and run.first keeps the   *)
(* counters of the first of them.                                          *)
(*                                                                         *)
(* A run commits once, when its atomic block ends, except that the two     *)
(* import commands delete the rows --clear-existing names in autocommit    *)
(* before the atomic block begins, table by table.  Such a run is several  *)
(* steps, with run.cmd = "clearing" between them: BeginClearing is handle  *)
(* up to the call of _clear_existing_data, ContinueClearing one table of   *)
(* it and CompleteRun the rest of handle.                                  *)
(*                                                                         *)
(* A view that makes several queries makes them in autocommit, one by one: *)
(* reader holds what the queries made so far have returned, and whatever   *)
(* is committed between two queries is found by the later one.  The POST   *)
(* of /api/posts/import/ likewise commits post by post; run holds its      *)
(* progress.                                                               *)

Commands == {"import", "import_old", "history"}

NoReader == [view |-> "none"]

Idle == run.cmd = "none" /\ response = NoResponse

Clearing == run.cmd = "clearing"

(* No command is changing the store, no response is waiting and no request *)
(* is being answered.                                                      *)
Quiet == (run.cmd = "none" \/ Clearing) /\ response = NoResponse /\ reader = NoReader

(* A request may arrive. *)
Ready == response = NoResponse /\ reader = NoReader

(* handle of the command cmd, on the store st.                             *)
Result(cmd, st, input, opts, now) ==
    IF cmd = "import" THEN Handle(st, input, opts, now)
    ELSE IF cmd = "import_old" THEN OldHandle(st, input, opts)
    ELSE HistoryHandle(st, input.files, opts)

(* The run reaches the call of _clear_existing_data.                       *)
ClearsFirst(cmd, input, opts) ==
    /\ cmd \in {"import", "import_old"}
    /\ ClearWanted(opts)
    /\ input.status = "ok"
    /\ cmd = "import" => opts.user \in Users
    /\ cmd = "import_old" => input.kind = "list"

(* The run reads the clock: only import_tiktok_json does, in               *)
(* _create_snapshot, when it imports followers, is no dry run and one of   *)
(* the two counts is positive.  A list file holds no followers, so that    *)
(* its counts are those of the store the atomic block begins with.         *)
ReadsClock(cmd, input, opts) ==
    /\ cmd = "import"
    /\ input.status = "ok"
    /\ opts.user \in Users
    /\ ~opts.posts_only /\ ~opts.dry_run
    /\ \/ FollowerCount(Store, opts.user, input) > 0
       \/ FollowingCount(Store, opts.user, input) > 0

(* The readings of the clock a run may get; a run that does not read the   *)
(* clock goes one way.                                                     *)
Clock(cmd, input, opts) ==
    IF ReadsClock(cmd, input, opts) THEN Now ELSE {SetMax(Now)}

(* The run ends: its atomic block has committed or rolled back and handle   *)
(* returns or raises.                                                      *)
Finish(cmd, input, opts, r, runs, first, before) ==
    /\ posts' = r.store.posts
    /\ followers' = r.store.followers
    /\ following' = r.store.following
    /\ snapshots' = r.store.snapshots
    /\ pre' = before
    /\ run' = [cmd |-> cmd, input |-> input, opts |-> opts, stats |-> r.stats,
               phases |-> r.phases, raised |-> r.raised, runs |-> runs,
               first |-> IF runs = 1 THEN r.stats ELSE first,
               analysis |-> IF "analysis" \in DOMAIN r THEN r.analysis ELSE NoAnalysis]
    /\ UNCHANGED <<response, reader>>

(* The run reaches _clear_existing_data: nothing is deleted yet.  The      *)
(* earlier command has the block of the posts alone.                       *)
BeginClearing(cmd, input, opts, runs, first) ==
    /\ pre' = Store
    /\ run' = [cmd |-> "clearing", pending |-> cmd, input |-> input, opts |-> opts,
               stats |-> NoStats,
               phases |-> <<"Idle", "Reading", "Parsing", "ClearExisting">>,
               raised |-> "none", runs |-> runs, first |-> first,
               analysis |-> NoAnalysis,
               left |-> IF cmd = "import"
                        THEN ClearedTables(~opts.followers_only, ~opts.posts_only)
                        ELSE ClearedTables(TRUE, FALSE)]
    /\ UNCHANGED <<posts, followers, following, snapshots, response, reader>>

(* The next table of _clear_existing_data: its count and its delete.       *)
ContinueClearing ==
    /\ Clearing
    /\ run.left # <<>>
    /\ LET user == IF run.pending = "import" THEN run.opts.user ELSE "admin"
           r == ClearTable(Store, user, Head(run.left))
       IN  /\ posts' = r.store.posts
           /\ followers' = r.store.followers
           /\ following' = r.store.following
           /\ run' = [run EXCEPT !.left = r.then \o Tail(@)]
    /\ UNCHANGED <<snapshots, pre, response, reader>>

(* A command is entered: the whole run, or the part of it up to the        *)
(* clearing.                                                               *)
Enter(cmd, input, opts, runs, first) ==
    IF ClearsFirst(cmd, input, opts)
    THEN BeginClearing(cmd, input, opts, runs, first)
    ELSE \E now \in Clock(cmd, input, opts) :
             Finish(cmd, input, opts, Result(cmd, Store, input, opts, now),
                    runs, first, Store)

RunImport(files, flags) ==
    /\ Idle
    /\ \E file \in files, opts \in flags : Enter("import", file, opts, 1, NoStats)

RunOldImport(files, flags) ==
    /\ Idle
    /\ \E file \in files, opts \in flags : Enter("import_old", file, opts, 1, NoStats)

RunHistory(fileLists, flags) ==
    /\ Idle
    /\ \E files \in fileLists, opts \in flags :
           Enter("history", [files |-> files], opts, 1, NoStats)

(* The same command line entered a second time.                            *)
RunAgain ==
    /\ run.cmd \in Commands
    /\ run.runs = 1
    /\ Enter(run.cmd, run.input, run.opts, 2, run.first)

(* The rest of a run that began by clearing: handle from the atomic block  *)
(* on, which finds the store cleared.                                      *)
CompleteRun ==
    /\ Clearing
    /\ run.left = <<>>
    /\ \E now \in Clock(run.pending, run.input, run.opts) :
           Finish(run.pending, run.input, run.opts,
                  Result(run.pending, Store, run.input, run.opts, now),
                  run.runs, run.first, pre)

NoRun == [cmd |-> "none", input |-> MissingFile, opts |-> [dry_run |-> FALSE],
          stats |-> NoStats, phases |-> <<"Idle">>, raised |-> "none",
          runs |-> 0, first |-> NoStats, analysis |-> NoAnalysis]

(* The command returns to the shell and the client takes the response.  A  *)
(* run that is not over goes on.                                           *)
Return ==
    /\ response # NoResponse \/ run.cmd \in Commands
    /\ run' = IF run.cmd \in Commands THEN NoRun ELSE run
    /\ pre' = IF run.cmd \in Commands \cup {"none"} THEN Store ELSE pre
    /\ response' = NoResponse
    /\ UNCHANGED <<posts, followers, following, snapshots, reader>>

(* GET /api/followers/stats/ and GET /api/followers/growth/ by a user.  The *)
(* clock of the request is not bound by the data: it reads one of the      *)
(* instants of Now or, for a stored snapshot, the last instant at which    *)
(* the period asked for still reaches back to the snapshot or the first    *)
(* instant at which it no longer does.                                     *)
Periods == {"week", "month", "year", "all"}

RequestTimes(S, period) ==
    Now \cup {r.snapshot_date + PeriodDays[p] + late :
                 r \in BagToSet(S), p \in DOMAIN PeriodDays \cap {period},
                 late \in {0, 1}}

(* The readings of the clock of stats: an instant of Now, or an instant    *)
(* around the end of the week or of the thirty days that follow the        *)
(* instant d2 of the export files.                                         *)
StatsTimes ==
    Now \cup {DateValue.d2 + days + late : days \in {7, 30}, late \in {0, 1}}

(* stats makes seven queries.  GetStats is the request up to the first,    *)
(* for the names of the followers.                                         *)
GetStats ==
    /\ Ready
    /\ \E user \in Users :
           reader' = [view |-> "stats", user |-> user, queries |-> 1,
                      followers |-> Usernames(followers, user)]
    /\ UNCHANGED <<posts, followers, following, snapshots, pre, run, response>>

(* The next query of stats, with what stands before it in the view: the    *)
(* names of the followed; the clock and the followers of the last week;    *)
(* the followed of the last week; the clock again and the followers of the *)
(* last thirty days; the followed of these; the top dates, after which the *)
(* view answers.                                                           *)
ContinueStats ==
    /\ reader.view = "stats"
    /\ \/ /\ reader.queries = 1
          /\ reader' = [reader EXCEPT !.queries = 2]
                           @@ [following |-> Usernames(following, reader.user)]
          /\ UNCHANGED response
       \/ /\ reader.queries = 2
          /\ \E now \in StatsTimes :
                 reader' = [reader EXCEPT !.queries = 3]
                              @@ [week_ago |-> now - 7,
                                  weekly_followers_gained |->
                                      GainedSince(followers, reader.user, now - 7)]
          /\ UNCHANGED response
       \/ /\ reader.queries = 3
          /\ reader' = [reader EXCEPT !.queries = 4]
                           @@ [weekly_following_gained |->
                                   GainedSince(following, reader.user, reader.week_ago)]
          /\ UNCHANGED response
       \/ /\ reader.queries = 4
          /\ \E now \in {reader.week_ago + 7, reader.week_ago + 8} :
                 reader' = [reader EXCEPT !.queries = 5]
                              @@ [month_ago |-> now - 30,
                                  monthly_followers_gained |->
                                      GainedSince(followers, reader.user, now - 30)]
          /\ UNCHANGED response
       \/ /\ reader.queries = 5
          /\ reader' = [reader EXCEPT !.queries = 6]
                           @@ [monthly_following_gained |->
                                   GainedSince(following, reader.user, reader.month_ago)]
          /\ UNCHANGED response
       \/ /\ reader.queries = 6
          /\ response = NoResponse
          /\ \E top_dates \in TopAcquisitionDates(followers, reader.user) :
                 response' = FollowerStats(reader.user, reader.followers,
                                           reader.following, reader, top_dates)
          /\ reader' = NoReader
    /\ UNCHANGED <<posts, followers, following, snapshots, pre, run>>

GetGrowth ==
    /\ Quiet
    /\ \E user \in Users, period \in Periods :
           \E now \in RequestTimes(snapshots, period) :
               response' = Growth(Store, user, period, now)
    /\ UNCHANGED <<posts, followers, following, snapshots, pre, run, reader>>

InitWith(postRows, followerRows) ==
    /\ posts \in {EmptyBag, SetToBag(postRows)}
    /\ followers \in {EmptyBag, SetToBag(followerRows)}
    /\ following = EmptyBag
    /\ snapshots = EmptyBag
    /\ pre = Store
    /\ run = NoRun
    /\ response = NoResponse
    /\ reader = NoReader

-----------------------------------------------------------------------------
(* Posts: both import commands on list files of up to MaxRecords posts.    *)

PostFiles == {ListFile(items) : items \in SeqsUpTo(PostObjects, MaxRecords)}

PostFlags == {o \in Flags : ~o.followers_only /\ o.user = "admin"}

ImportPostFile == RunImport(PostFiles, PostFlags)

OldImportPostFile == RunOldImport(PostFiles, OldFlags)

InitPosts == InitWith({PinnedRow}, {})

NextPosts ==
    ImportPostFile \/ OldImportPostFile \/ RunAgain \/ ContinueClearing \/ CompleteRun
    \/ Return

SpecPosts == InitPosts /\ [][NextPosts]_vars

-----------------------------------------------------------------------------
(* Followers and following: the import command on dict files whose lists   *)
(* hold up to MaxRecords entries in all.                                   *)

FollowerFiles ==
    {DictFile(<<>>, fans, fol, <<>>) :
        fans \in SeqsUpTo(Entries, MaxRecords),
        fol \in SeqsUpTo({EntryA2, EntryBadDate}, MaxRecords)}
    \cup {DictFile(<<>>, fans, fol, <<EntryA>>) :
             fans \in SeqsUpTo({EntryA, EntryB}, 1),
             fol \in SeqsUpTo({EntryNoName}, 1)}

FollowerFlags == {o \in Flags : ~o.posts_only /\ o.user = "admin"}

ImportFollowerFile ==
    RunImport({f \in FollowerFiles :
                  Len(FollowersData(f)) + Len(FollowingData(f)) <= MaxRecords},
              FollowerFlags)

InitFollowers == InitWith({}, {RelRow("admin", NameA, 3)})

NextFollowers ==
    ImportFollowerFile \/ RunAgain \/ ContinueClearing \/ CompleteRun \/ Return

SpecFollowers == InitFollowers /\ [][NextFollowers]_vars

-----------------------------------------------------------------------------
(* History: the history command on up to MaxExports export files, given in *)
(* any order, and the growth the API reports from the snapshots.           *)

(* An export file as the history command sees it, with its mtime.          *)
HistoryFile(fans, fol, mtime) == DictFile(<<>>, fans, fol, <<>>) @@ [mtime |-> mtime]

HistoryExports ==
    {HistoryFile(<<>>, <<>>, 4),
     HistoryFile(<<EntryNaive>>, <<>>, 3),
     HistoryFile(<<EntryBlank, EntryA>>, <<EntryA>>, 3),
     HistoryFile(<<EntryB>>, <<EntryA>>, 3),
     HistoryFile(<<EntryA2, EntryB>>, <<>>, 3),
     HistoryFile(<<EntryBadDate>>, <<EntryA3>>, 1),
     HistoryFile(<<EntryA, EntryImpossible>>, <<>>, 1),
     HistoryFile(<<EntryA, EntryNaive>>, <<>>, 1)}

ExportsFlags == [dry_run : BOOLEAN, user : {"admin"}]

ImportExports == RunHistory(SeqsUpTo(HistoryExports, MaxExports), ExportsFlags)

InitHistory == InitWith({}, {})

NextHistory == ImportExports \/ RunAgain \/ GetGrowth \/ Return

SpecHistory == InitHistory /\ [][NextHistory]_vars

-----------------------------------------------------------------------------
(* The three commands together: every flag combination, known and unknown  *)
(* users, files that are missing or hold no JSON, list files and dict      *)
(* files.                                                                  *)

HistoryFlags == [dry_run : BOOLEAN, user : {"admin", "ghost"}]

HistoryFiles ==
    {HistoryFile(<<EntryA>>, <<>>, 1), HistoryFile(<<>>, <<>>, 2),
     MissingFile, GarbageFile}

ExportFiles ==
    {MissingFile, GarbageFile}
    \cup {ListFile(items) : items \in SeqsUpTo({PostA, PostNull}, MaxRecords)}
    \cup {DictFile(ps, fans, fol, root) :
             ps \in SeqsUpTo({PostExport}, 1),
             fans \in SeqsUpTo({EntryA}, 1),
             fol \in SeqsUpTo({EntryBadDate}, 1),
             root \in SeqsUpTo({EntryA}, 1)}

(* An unknown user ends the run at the user lookup, whatever the two       *)
(* --*-only flags say.                                                     *)
ImportFlags == {o \in Flags : o.user = "ghost" => ~o.posts_only /\ ~o.followers_only}

ImportFile == RunImport(ExportFiles, ImportFlags)

OldImportFile == RunOldImport(ExportFiles, OldFlags)

ImportHistoryFiles == RunHistory(SeqsUpTo(HistoryFiles, MaxRecords), HistoryFlags)

Init == InitWith({PinnedRow}, {RelRow("admin", NameA, 3)})

Next == ImportFile \/ OldImportFile \/ ImportHistoryFiles \/ RunAgain \/ ContinueClearing
        \/ CompleteRun \/ Return

Spec == Init /\ [][Next]_vars

-----------------------------------------------------------------------------
(* Properties.  pre is the store the last run started from, run its report. *)

Range(s) == {s[i] : i \in 1..Len(s)}

PostIds(T) == {r.post_id : r \in BagToSet(T)}

ImportCommands == {"import", "import_old"}

(* The record as the command reads it, whether the command rejects it on   *)
(* its own (whatever the store holds), its id and the row it stands for.   *)
RecordOf(cmd, item) == IF cmd = "import" THEN ConvertPostFormat(item) ELSE Some(item)

RecordFails(cmd, item) ==
    \/ RecordOf(cmd, item) = None
    \/ LET d == Value(RecordOf(cmd, item))
       IN  \/ ~(OldRequired \subseteq DOMAIN d)
           \/ DateRefused(d["date"])
           \/ NotNullViolated(d["title"])

RecordId(cmd, item) == Value(RecordOf(cmd, item))["id"]

RowOf(cmd, item) ==
    LET d == Value(RecordOf(cmd, item))
    IN  PostRow(d["id"], d["title"], d["likes"], Value(ParseDatetime(d["date"])).instant,
                d["cover_url"], d["video_link"],
                IF cmd = "import" THEN None ELSE OptionalKey(d, "views"))

(* The run read its file and found its user: it reached reconciliation.    *)
Reconciled ==
    /\ run.cmd \in ImportCommands
    /\ run.input.status = "ok"
    /\ run.cmd = "import" => run.opts.user \in Users
    /\ run.cmd = "import_old" => run.input.kind = "list"

ImportsPosts == run.cmd = "import" => ~run.opts.followers_only

SkipPolicy ==
    /\ ~run.opts.dry_run
    /\ ~run.opts.clear_existing
    /\ run.cmd = "import_old" => ~run.opts.update_duplicates

(* C1: a run with dry_run, of either import command or of the history      *)
(* command, with any file and any other flags, leaves every Post,          *)
(* Follower, Following and FollowerSnapshot row as it was before the run.  *)
DryRunLeavesRowsUnchanged ==
    (run.cmd # "none" /\ run.opts.dry_run) => Store = pre

DryRunWithClearSeen ==
    /\ run.cmd = "import"
    /\ run.opts.dry_run /\ run.opts.clear_existing
    /\ ~run.opts.posts_only /\ ~run.opts.followers_only
    /\ run.stats.posts.created > 0
    /\ run.stats.followers.created > 0
    /\ pre.posts # EmptyBag /\ pre.followers # EmptyBag

(* C2: the Post table never holds two rows with one post_id, whatever runs *)
(* came before (skip, update, clear_existing, dry_run, files that repeat   *)
(* an id).                                                                 *)
PostIdUnique ==
    /\ \A r \in BagToSet(posts) : CopiesIn(r, posts) = 1
    /\ \A r1, r2 \in BagToSet(posts) : r1.post_id = r2.post_id => r1 = r2

RepeatedPostIdSeen ==
    /\ run.cmd = "import" /\ ~run.opts.dry_run
    /\ run.input.data["items"] = <<PostA, PostB>>
    /\ run.stats.posts.created = 1 /\ run.stats.posts.skipped = 1
    /\ ~PostIdTaken(pre.posts, P1) /\ PostIdTaken(posts, P1)

(* C3: the Follower table and the Following table hold at most one row per *)
(* (user, username), also after an export that lists one UserName twice.   *)
RelationKeyUnique ==
    \A T \in {followers, following} :
        /\ \A r \in BagToSet(T) : CopiesIn(r, T) = 1
        /\ \A r1, r2 \in BagToSet(T) :
               (r1.user = r2.user /\ r1.username = r2.username) => r1 = r2

RepeatedUserNameSeen ==
    /\ run.cmd = "import" /\ ~run.opts.dry_run
    /\ FollowersData(run.input) = <<EntryA, EntryA2>>
    /\ run.stats.followers.created = 2
    /\ BagCardinality(followers) = BagCardinality(pre.followers) + 1

(* C4: after the second of two runs of one command on one file with the    *)
(* skip policy, every table has as many rows as after the first run, and   *)
(* the second run reports every record skipped and none created.           *)
SecondRunSkipsAll ==
    (Reconciled /\ SkipPolicy /\ run.runs = 2) =>
        /\ BagCardinality(posts) = BagCardinality(pre.posts)
        /\ BagCardinality(followers) = BagCardinality(pre.followers)
        /\ BagCardinality(following) = BagCardinality(pre.following)
        /\ BagCardinality(snapshots) = BagCardinality(pre.snapshots)
        /\ \A k \in {"posts", "followers", "following"} :
               /\ run.stats[k].created = 0
               /\ run.stats[k].skipped = run.stats[k].found

(* C5: a run of the import command without dry_run ends with its summary;  *)
(* every record that does not fail has a row afterwards (its own or the    *)
(* one it was skipped for), every record is counted once, at most the      *)
(* failing ones as errors, and each record reported created is a row       *)
(* added.                                                                  *)
FailuresAreIsolated ==
    (Reconciled /\ run.cmd = "import" /\ ~run.opts.dry_run /\ ~run.opts.followers_only
     /\ ~run.opts.clear_existing) =>
        LET items == PostsData(run.input)
            failing == {i \in 1..Len(items) : RecordFails("import", items[i])}
        IN  /\ run.raised = "none"
            /\ \A i \in (1..Len(items)) \ failing :
                   RecordId("import", items[i]) \in PostIds(posts)
            /\ run.stats.posts.found = Len(items)
            /\ run.stats.posts.errors <= Cardinality(failing)
            /\ BagCardinality(posts) = BagCardinality(pre.posts) + run.stats.posts.created

(* C6: a run whose file is missing or holds no JSON, or whose user is       *)
(* unknown, ends with an error and leaves every row as it was, also with   *)
(* clear_existing.                                                         *)
FatalInput ==
    \/ /\ run.cmd \in ImportCommands
       /\ run.input.status \in {"missing", "garbage"}
    \/ /\ run.cmd \in {"import", "history"}
       /\ run.opts.user \notin Users
    \/ /\ run.cmd = "history"
       /\ \E f \in Range(run.input.files) : f.status \in {"missing", "garbage"}

FatalErrorsChangeNothing ==
    FatalInput => /\ run.raised = "CommandError"
                  /\ Last(run.phases) = "Aborted"
                  /\ Store = pre

FatalWithClearSeen ==
    /\ run.cmd = "import"
    /\ run.input.status = "garbage"
    /\ run.opts.clear_existing /\ ~run.opts.dry_run /\ run.opts.user \in Users
    /\ run.raised = "CommandError"
    /\ pre.posts # EmptyBag /\ pre.followers # EmptyBag

(* C7: under the skip policy every row that existed before the run is      *)
(* unchanged, each record whose post_id existed is reported skipped, and   *)
(* each record with a new post_id that does not fail has a row afterwards. *)
SkipKeepsExistingCreatesNew ==
    (Reconciled /\ SkipPolicy /\ ImportsPosts) =>
        LET items == PostsData(run.input)
            good == {i \in 1..Len(items) : ~RecordFails(run.cmd, items[i])}
        IN  /\ \A r \in BagToSet(pre.posts) : CopiesIn(r, posts) = CopiesIn(r, pre.posts)
            /\ \A i \in good : RecordId(run.cmd, items[i]) \in PostIds(posts)
            /\ run.stats.posts.skipped >=
                   Cardinality({i \in good :
                                   RecordId(run.cmd, items[i]) \in PostIds(pre.posts)})

(* C8: under the update policy every record that does not fail and whose   *)
(* post_id existed is reported updated; the row of that post_id holds the  *)
(* values of the last such record in its mutable fields and its former     *)
(* values elsewhere; the row stays one row.                                *)
UpdateOverwritesMutableFields ==
    (Reconciled /\ run.cmd = "import_old" /\ run.opts.update_duplicates
     /\ ~run.opts.dry_run /\ ~run.opts.clear_existing) =>
        LET items == PostsData(run.input)
            hits == {i \in 1..Len(items) :
                        /\ ~RecordFails("import_old", items[i])
                        /\ RecordId("import_old", items[i]) \in PostIds(pre.posts)}
        IN  /\ run.stats.posts.updated >= Cardinality(hits)
            /\ \A r \in BagToSet(pre.posts) :
                   LET mine == {i \in hits : RecordId("import_old", items[i]) = r.post_id}
                       now == {x \in BagToSet(posts) : x.post_id = r.post_id}
                   IN  now = {IF mine = {} THEN r ELSE UpdatedRow(r, items[SetMax(mine)])}

(* C9: after a run with clear_existing and without dry_run the Post rows   *)
(* are exactly the rows of the file's records that do not fail (the first  *)
(* record of each post_id), and each of these records is reported created, *)
(* none skipped.                                                           *)
ClearLeavesExactlyTheFile ==
    (Reconciled /\ run.cmd = "import" /\ run.opts.clear_existing /\ ~run.opts.dry_run
     /\ ~run.opts.followers_only) =>
        LET items == PostsData(run.input)
            good == {i \in 1..Len(items) : ~RecordFails("import", items[i])}
            first == {i \in good : \A j \in good :
                         RecordId("import", items[j]) = RecordId("import", items[i])
                             => i <= j}
        IN  /\ BagToSet(posts) = {RowOf("import", items[i]) : i \in first}
            /\ BagCardinality(posts) = Cardinality(first)
            /\ run.stats.posts.created = Cardinality(first)

(* C10: every run of an import command goes through Idle, Reading,         *)
(* Parsing, ClearExisting (optional), Reconciling, Rollback with dry_run   *)
(* and Commit without, Summarized; or it ends in Aborted before            *)
(* Reconciling.                                                            *)
Conforming(dry_run) ==
    {<<"Idle", "Reading", "Parsing">> \o clear
        \o <<"Reconciling", IF dry_run THEN "Rollback" ELSE "Commit", "Summarized">> :
     clear \in {<<>>, <<"ClearExisting">>}}

RunFollowsStateMachine ==
    run.cmd \in ImportCommands =>
        \/ run.phases \in Conforming(run.opts.dry_run)
        \/ /\ Last(run.phases) = "Aborted"
           /\ "Reconciling" \notin Range(run.phases)
           /\ \E n \in 0..3 : Front(run.phases) = Take(<<"Idle", "Reading", "Parsing">>, n)

(* C11: a dry run of an import command that reaches reconciliation returns *)
(* without an error to its caller and ends with the summary.               *)
DryRunEndsWithSummary ==
    (Reconciled /\ run.opts.dry_run) =>
        /\ run.raised = "none"
        /\ Last(run.phases) = "Summarized"

(* The run of the same command on the same file and the same store without *)
(* dry_run; its counters do not depend on what the clock reads.            *)
RealRun ==
    LET opts == [run.opts EXCEPT !.dry_run = FALSE]
    IN  Result(run.cmd, pre, run.input, opts, SetMax(Now))

(* C12: a dry run reports, for each kind of record, the counts of created, *)
(* updated, skipped and failed records that the run without dry_run        *)
(* reports for the same file on the same store.                            *)
DryRunDecidesAsRealRun ==
    (Reconciled /\ run.opts.dry_run /\ ~run.opts.clear_existing) =>
        run.stats = RealRun.stats

(* The history run got as far as its analysis; the exports as it read them *)
(* from its files, in the order of their dates.                            *)
HistoryAnalyzed == run.cmd = "history" /\ run.raised = "none"

(* The exports of the files of the run, as given and as sorted.            *)
SuppliedExports ==
    [i \in 1..Len(run.input.files) |-> Value(ExtractExportInfo(run.input.files[i]))]

SortedExports == SortByDate(SuppliedExports)

(* C13: the snapshots of the analysis are in ascending date order; the     *)
(* first has empty gained and lost sets, every later one has gained = its  *)
(* set minus the set of the snapshot before it and lost = the set before   *)
(* minus its set, for followers and for following; the net change of a     *)
(* period is the number gained minus the number lost.                      *)
GainedLostAgainstPreceding ==
    HistoryAnalyzed =>
        LET exports == SortedExports
            snaps == run.analysis.snapshots
            changes == run.analysis.changes
        IN  /\ Len(snaps) = Len(exports)
            /\ Len(changes) = (IF exports = <<>> THEN 0 ELSE Len(exports) - 1)
            /\ \A i \in 1..Len(snaps) :
                   /\ snaps[i].followers = exports[i].followers
                   /\ snaps[i].following = exports[i].following
                   /\ i > 1 => snaps[i - 1].date.instant <= snaps[i].date.instant
                   /\ snaps[i].gained_followers =
                          (IF i = 1 THEN {} ELSE exports[i].followers \ exports[i - 1].followers)
                   /\ snaps[i].lost_followers =
                          (IF i = 1 THEN {} ELSE exports[i - 1].followers \ exports[i].followers)
                   /\ snaps[i].gained_following =
                          (IF i = 1 THEN {} ELSE exports[i].following \ exports[i - 1].following)
                   /\ snaps[i].lost_following =
                          (IF i = 1 THEN {} ELSE exports[i - 1].following \ exports[i].following)
            /\ \A i \in 1..Len(changes) :
                   /\ changes[i].followers_gained = snaps[i + 1].gained_followers
                   /\ changes[i].followers_lost = snaps[i + 1].lost_followers
                   /\ changes[i].net_followers =
                          Cardinality(exports[i + 1].followers \ exports[i].followers)
                              - Cardinality(exports[i].followers \ exports[i + 1].followers)
                   /\ changes[i].net_following =
                          Cardinality(exports[i + 1].following \ exports[i].following)
                              - Cardinality(exports[i].following \ exports[i + 1].following)

(* Three exports given out of date order, one period of which gains one    *)
(* follower and loses another, and the last of which differs from the      *)
(* first otherwise than from the one before it.                            *)
SwapPeriodSeen ==
    /\ HistoryAnalyzed
    /\ Len(run.input.files) = 3
    /\ SortedExports # SuppliedExports
    /\ \E i \in 1..2 :
           /\ run.analysis.changes[i].followers_gained # {}
           /\ run.analysis.changes[i].followers_lost # {}
           /\ run.analysis.changes[i].net_followers = 0
    /\ run.analysis.snapshots[3].gained_followers
           # SortedExports[3].followers \ SortedExports[1].followers

(* C14: total_gained is the union of the followers gained in each period   *)
(* and total_lost the union of the followers lost in each period.          *)
TotalsAreUnions ==
    HistoryAnalyzed =>
        LET exports == SortedExports
        IN  /\ run.analysis.total_gained =
                   UNION {exports[i].followers \ exports[i - 1].followers :
                          i \in 2..Len(exports)}
            /\ run.analysis.total_lost =
                   UNION {exports[i - 1].followers \ exports[i].followers :
                          i \in 2..Len(exports)}

(* A follower gained in one period and lost in a later one: in both        *)
(* totals, and not in the difference of the first and the last export.     *)
GainedThenLostSeen ==
    /\ HistoryAnalyzed
    /\ Len(run.input.files) = 3
    /\ \E n \in run.analysis.total_gained \cap run.analysis.total_lost :
           /\ n \in run.analysis.snapshots[2].gained_followers
           /\ n \in run.analysis.snapshots[3].lost_followers
           /\ n \notin SortedExports[1].followers
           /\ n \notin SortedExports[3].followers

(* C15: after a history run without dry_run the store holds, for every     *)
(* date of an export, one FollowerSnapshot row of the user, with the       *)
(* counts of the export of that date (the last one in the sorted order if  *)
(* several have the date); no two rows share (user, snapshot_date); a      *)
(* second run with the same exports leaves the table as it was.            *)
SnapshotUpsertIdempotent ==
    (HistoryAnalyzed /\ ~run.opts.dry_run) =>
        LET exports == SortedExports
        IN  /\ \A i \in 1..Len(exports) :
                   LET rows == {r \in BagToSet(snapshots) :
                                   /\ r.user = run.opts.user
                                   /\ r.snapshot_date = exports[i].date.instant}
                       last == SetMax({j \in 1..Len(exports) :
                                          exports[j].date = exports[i].date})
                   IN  /\ Cardinality(rows) = 1
                       /\ \A r \in rows :
                              /\ CopiesIn(r, snapshots) = 1
                              /\ r.follower_count = exports[last].follower_count
                              /\ r.following_count = exports[last].following_count
            /\ \A r1, r2 \in BagToSet(snapshots) :
                   (r1.user = r2.user /\ r1.snapshot_date = r2.snapshot_date) => r1 = r2
            /\ run.runs = 2 => snapshots = pre.snapshots

(* The second run of a history import that overwrote the counts of a date *)
(* within the run.                                                         *)
RepeatedHistoryRunSeen ==
    /\ HistoryAnalyzed /\ ~run.opts.dry_run
    /\ run.runs = 2
    /\ BagCardinality(snapshots) = 2
    /\ \E i, j \in 1..Len(run.input.files) :
           /\ i < j
           /\ SortedExports[i].date = SortedExports[j].date
           /\ SortedExports[i].follower_count # SortedExports[j].follower_count

(* The rows of the entries that pass validation, in the order of the file. *)
RECURSIVE ValidRows(_, _)
ValidRows(entries, user) ==
    IF entries = <<>> THEN <<>>
    ELSE LET e == Last(entries)
             before == ValidRows(Front(entries), user)
         IN  IF EntryValid(e)
             THEN Append(before, RelRow(user, EntryName(e), Value(EntryDate(e)).instant))
             ELSE before

(* Import row by row: an existence check, then the insert of the row if    *)
(* none exists.                                                            *)
RECURSIVE PerRowImport(_, _)
PerRowImport(T, rows) ==
    IF rows = <<>> THEN T
    ELSE LET T1 == PerRowImport(T, Front(rows))
             r == Last(rows)
         IN  IF \E x \in BagToSet(T1) : x.user = r.user /\ x.username = r.username
             THEN T1
             ELSE T1 (+) SetToBag({r})

(* C16: after a committed run the Follower rows, and the Following rows,   *)
(* are the rows that a row-by-row import of the file's valid entries       *)
(* leaves, and the rows that one conflict-ignoring bulk insert of all of   *)
(* them leaves, from the same table.                                       *)
PerRowAndBulkAgree ==
    (Reconciled /\ run.cmd = "import" /\ ~run.opts.dry_run /\ ~run.opts.posts_only
     /\ "Commit" \in Range(run.phases)) =>
        LET user == run.opts.user
            start(T) == IF run.opts.clear_existing THEN NotOf(T, user) ELSE T
            fans == ValidRows(FollowersData(run.input), user)
            fol == ValidRows(FollowingData(run.input), user)
        IN  /\ followers = PerRowImport(start(pre.followers), fans)
            /\ followers = BulkCreateIgnore(start(pre.followers), fans)
            /\ following = PerRowImport(start(pre.following), fol)
            /\ following = BulkCreateIgnore(start(pre.following), fol)

(* A file with a follower the store holds and one it does not hold.        *)
OverlappingExportSeen ==
    /\ run.cmd = "import" /\ ~run.opts.dry_run /\ ~run.opts.clear_existing
    /\ "Commit" \in Range(run.phases)
    /\ FollowersData(run.input) = <<EntryB, EntryA2>>
    /\ pre.followers = SetToBag({RelRow("admin", NameA, 3)})
    /\ run.stats.followers.created = 1 /\ run.stats.followers.skipped = 1
    /\ BagCardinality(followers) = 2

RelKeys(T) == {<<r.user, r.username>> : r \in BagToSet(T)}

(* C17: a step that is not a run with clear_existing removes no post_id    *)
(* from the Post table and no (user, username) pair from the Follower and  *)
(* the Following table.                                                    *)
RowsOnlyGrowWithoutClear ==
    [][("clear_existing" \in DOMAIN run'.opts => ~run'.opts.clear_existing) =>
           /\ PostIds(posts) \subseteq PostIds(posts')
           /\ RelKeys(followers) \subseteq RelKeys(followers')
           /\ RelKeys(following) \subseteq RelKeys(following')]_vars

(* A run without clear_existing that added a post and a follower to a      *)
(* store that held one of each.                                            *)
GrownStoreSeen ==
    /\ run.cmd = "import" /\ ~run.opts.clear_existing /\ ~run.opts.dry_run
    /\ pre.posts # EmptyBag /\ pre.followers # EmptyBag
    /\ PostIds(pre.posts) \subseteq PostIds(posts) /\ PostIds(posts) # PostIds(pre.posts)
    /\ RelKeys(pre.followers) \subseteq RelKeys(followers)
    /\ run.stats.followers.skipped = 1

(* C18: no Post row has negative likes, and a run of an import command     *)
(* counts every record whose likes are negative as an error.               *)
NegativeLikesRejected ==
    /\ \A r \in BagToSet(posts) : r.likes >= 0
    /\ (Reconciled /\ ImportsPosts /\ ~run.opts.dry_run) =>
           LET items == PostsData(run.input)
               negative == {i \in 1..Len(items) :
                               /\ RecordOf(run.cmd, items[i]) # None
                               /\ "likes" \in DOMAIN Value(RecordOf(run.cmd, items[i]))
                               /\ Value(RecordOf(run.cmd, items[i]))["likes"] < 0}
           IN  run.stats.posts.errors >= Cardinality(negative)

(* C19: the counts of the follower statistics are those of F intersect G,  *)
(* F minus G and G minus F, for the user's follower names F and following  *)
(* names G as the two queries of the view found them; mutuals and          *)
(* followers-only add up to |F|, mutuals and following-only to |G|.        *)
StatsPartitionFollowers ==
    response.view = "stats" =>
        LET F == response.read.followers
            G == response.read.following
        IN  /\ response.mutuals_count + response.followers_only_count = Cardinality(F)
            /\ response.mutuals_count + response.following_only_count = Cardinality(G)
            /\ response.mutuals_count = Cardinality(F \cap G)
            /\ response.followers_only_count = Cardinality(F \ G)
            /\ response.following_only_count = Cardinality(G \ F)
            /\ response.total_followers = Cardinality(F)
            /\ response.total_following = Cardinality(G)

(* Statistics of a user with a mutual and a follower not followed back.    *)
StatsWithMutualSeen ==
    /\ response.view = "stats"
    /\ response.mutuals_count = 1
    /\ response.followers_only_count = 1
    /\ response.total_following = 1

(* The snapshots a growth request covers, as the store holds them.         *)
CoveredSnapshots ==
    {r \in BagToSet(snapshots) :
        /\ r.user = response.request.user
        /\ response.request.period \in {"week", "month", "year"} =>
               r.snapshot_date >= response.request.now
                   - (CASE response.request.period = "week" -> 7
                        [] response.request.period = "month" -> 30
                        [] response.request.period = "year" -> 365)}

(* C20: the growth response has one point per covered snapshot, in         *)
(* ascending date order; the first point has all deltas zero; every later  *)
(* point has net = its count minus the count of the point before it,       *)
(* gained = max(0, net) and lost = max(0, -net), for followers and for     *)
(* following, so that gained - lost = net and one of gained and lost is 0. *)
GrowthFollowsDeltas ==
    response.view = "growth" =>
        LET g == response.growth
        IN  /\ response.data_points = Len(g)
            /\ Len(g) = Cardinality(CoveredSnapshots)
            /\ \A i \in 1..Len(g) :
                   /\ \E r \in CoveredSnapshots :
                          /\ r.snapshot_date = g[i].date
                          /\ r.follower_count = g[i].follower_count
                          /\ r.following_count = g[i].following_count
                   /\ i > 1 => g[i - 1].date < g[i].date
                   /\ LET d1 == IF i = 1 THEN 0
                                ELSE g[i].follower_count - g[i - 1].follower_count
                          d2 == IF i = 1 THEN 0
                                ELSE g[i].following_count - g[i - 1].following_count
                      IN  /\ g[i].net_follower_growth = d1
                          /\ g[i].followers_gained = (IF d1 > 0 THEN d1 ELSE 0)
                          /\ g[i].followers_lost = (IF d1 < 0 THEN 0 - d1 ELSE 0)
                          /\ g[i].net_following_growth = d2
                          /\ g[i].following_gained = (IF d2 > 0 THEN d2 ELSE 0)
                          /\ g[i].following_lost = (IF d2 < 0 THEN 0 - d2 ELSE 0)
                          /\ g[i].followers_gained - g[i].followers_lost = d1
                          /\ g[i].followers_gained = 0 \/ g[i].followers_lost = 0
                          /\ g[i].following_gained = 0 \/ g[i].following_lost = 0

(* Growth of a period that leaves the oldest stored snapshot out and      *)
(* covers three later ones: the second point lost a follower and gained a *)
(* following, the third lost one of each, and the third has other deltas   *)
(* against the second than against the first.                              *)
GrowthWithLossSeen ==
    /\ response.view = "growth"
    /\ response.period = "month"
    /\ Len(response.growth) = 3
    /\ \E r \in BagToSet(snapshots) :
           r.user = response.request.user /\ r.snapshot_date < response.growth[1].date
    /\ response.growth[2].followers_lost > 0
    /\ response.growth[2].following_gained > 0
    /\ response.growth[3].followers_lost > 0
    /\ response.growth[3].following_lost > 0
    /\ response.growth[3].follower_count - response.growth[1].follower_count
           # response.growth[3].net_follower_growth
    /\ response.growth[3].following_count - response.growth[1].following_count
           # response.growth[3].net_following_growth

-----------------------------------------------------------------------------
(* The follower API on stores the imports can leave behind: up to two      *)
(* followers, up to two followed accounts and up to two snapshots of one   *)
(* user.                                                                   *)

ApiRelations ==
    {EmptyBag,
     SetToBag({RelRow("admin", NameA, 1)}),
     SetToBag({RelRow("admin", NameA, 1), RelRow("admin", NameB, 2)})}

ApiSnapshots ==
    {EmptyBag,
     SetToBag({SnapshotRow("admin", 1, 2, 0)}),
     SetToBag({SnapshotRow("admin", 2, 2, 3)}),
     SetToBag({SnapshotRow("admin", 1, 2, 0), SnapshotRow("admin", 2, 2, 3)})}

InitFollowerApi ==
    /\ posts = EmptyBag
    /\ followers \in ApiRelations
    /\ following \in ApiRelations
    /\ snapshots \in ApiSnapshots
    /\ pre = Store
    /\ run = NoRun
    /\ response = NoResponse
    /\ reader = NoReader

(* An import of followers that runs while the API answers: of an export    *)
(* with one follower, who is followed back, with and without               *)
(* --clear-existing.                                                       *)
ImportMeanwhile ==
    RunImport({DictFile(<<>>, <<EntryB>>, <<EntryB>>, <<>>)},
              {o \in Flags : /\ o.followers_only /\ ~o.posts_only /\ ~o.dry_run
                             /\ o.user = "admin"})

NextFollowerApi ==
    \/ GetStats
    \/ ContinueStats
    \/ GetGrowth
    \/ ImportMeanwhile
    \/ ContinueClearing
    \/ CompleteRun
    \/ Return

SpecFollowerApi == InitFollowerApi /\ [][NextFollowerApi]_vars

(* h hundredths is a nearest hundredth of a / b. *)
NearestHundredth(h, a, b) ==
    /\ 2 * (h * b - 100 * a) <= b
    /\ 2 * (100 * a - h * b) <= b

RatioOf(ratio, a, b) ==
    IF b = 0 THEN ratio = None
    ELSE ratio # None /\ NearestHundredth(Value(ratio), a, b)

(* C21: follower_ratio is null whenever the following count is 0, in the   *)
(* statistics of a user and in every point of the growth made from a       *)
(* snapshot; otherwise it is the follower count divided by the following   *)
(* count, to the nearest hundredth.                                        *)
RatioNullOrQuotient ==
    /\ response.view = "stats" =>
          RatioOf(response.follower_ratio,
                  Cardinality(response.read.followers),
                  Cardinality(response.read.following))
    /\ response.view = "growth" =>
          \A i \in 1..Len(response.growth) :
              \E r \in BagToSet(snapshots) :
                  /\ r.user = response.request.user
                  /\ r.snapshot_date = response.growth[i].date
                  /\ RatioOf(response.growth[i].follower_ratio,
                             r.follower_count, r.following_count)

(* The growth of a snapshot that follows nobody and of one that follows    *)
(* three accounts: no ratio for the first, 0.67 for the second.            *)
RatioNullAndQuotientSeen ==
    /\ response.view = "growth"
    /\ Len(response.growth) = 2
    /\ response.growth[1].following_count = 0
    /\ response.growth[1].follower_ratio = None
    /\ response.growth[2].follower_ratio = Some(67)

(* C24: a run of import_tiktok_json without dry_run whose export holds at  *)
(* least one follower or following entry under `Profile And Settings`      *)
(* adds exactly one FollowerSnapshot of the user, whose counts are the     *)
(* numbers of entries of FansList and of Following.                        *)
OneSnapshotPerImport ==
    (/\ Reconciled
     /\ run.cmd = "import"
     /\ ~run.opts.dry_run
     /\ ~run.opts.posts_only
     /\ Len(FollowersData(run.input)) + Len(FollowingData(run.input)) > 0)
    => \E r \in BagToSet(snapshots) :
           /\ r.user = run.opts.user
           /\ r.follower_count = Len(FollowersData(run.input))
           /\ r.following_count = Len(FollowingData(run.input))
           /\ snapshots = Insert(pre.snapshots, r)

(* C25: a run of import_tiktok_json with followers_only leaves every Post  *)
(* row as it was, and a run with posts_only leaves every Follower,         *)
(* Following and FollowerSnapshot row as it was, whatever the file and the *)
(* other flags, clear_existing included.                                   *)
FlagsConfineWrites ==
    (run.cmd = "import" \/ (Clearing /\ run.pending = "import")) =>
        /\ run.opts.followers_only => posts = pre.posts
        /\ run.opts.posts_only =>
              /\ followers = pre.followers
              /\ following = pre.following
              /\ snapshots = pre.snapshots

(* A followers_only run with clear_existing that replaced the followers of *)
(* a store that holds a post.                                              *)
FollowersOnlyClearSeen ==
    /\ run.cmd = "import"
    /\ run.opts.followers_only
    /\ run.opts.clear_existing
    /\ ~run.opts.dry_run
    /\ pre.posts # EmptyBag
    /\ followers # pre.followers
    /\ posts = pre.posts

DistinctDates(exports) ==
    \A i, j \in 1..Len(exports) : i # j => exports[i].date # exports[j].date

Ascending(exports) ==
    \A i \in 2..Len(exports) : exports[i - 1].date.instant <= exports[i].date.instant

(* C26, as the specification states it: the history command takes the      *)
(* exports in the order the caller supplied them, so its deltas are those  *)
(* between consecutive exports of that order.                              *)
DeltasInSuppliedOrder ==
    HistoryAnalyzed => run.analysis = AnalyzeHistory(SuppliedExports)

(* C26: the history command sorts the exports by their date before it      *)
(* compares them: the snapshots of the analysis ascend in date, and when   *)
(* the dates of the exports differ the analysis is the same in whatever    *)
(* order the files are given.                                              *)
DeltasInDateOrder ==
    HistoryAnalyzed =>
        /\ Ascending(run.analysis.snapshots)
        /\ DistinctDates(SuppliedExports) =>
              \A p \in Permutations(1..Len(SuppliedExports)) :
                  LET shuffled == [i \in 1..Len(SuppliedExports) |-> SuppliedExports[p[i]]]
                  IN  AnalyzeHistory(SortByDate(shuffled)) = run.analysis

(* Two or more exports given out of date order, for which the order given  *)
(* and the order of the dates yield different deltas.                      *)
MisorderedExportsSeen ==
    /\ HistoryAnalyzed
    /\ Len(run.input.files) >= 2
    /\ DistinctDates(SuppliedExports)
    /\ ~Ascending(SuppliedExports)
    /\ run.analysis.changes # AnalyzeHistory(SuppliedExports).changes
    /\ \E i \in 1..Len(run.analysis.changes) :
           run.analysis.changes[i].followers_gained # {}

Tallied(stats) == stats.created + stats.updated + stats.skipped + stats.errors

(* The post records the command finds in its file. *)
PostsFound ==
    IF run.cmd = "import" THEN Len(PostsData(run.input)) ELSE Len(run.input.data["items"])

(* C27: in every run of an import command that reads its file, and for     *)
(* every kind of record the run imports, created + updated + skipped +     *)
(* errors is the number of records of that kind in the file.               *)
CountersCoverTheFile ==
    Reconciled =>
        /\ ImportsPosts => Tallied(run.stats.posts) = PostsFound
        /\ (run.cmd = "import" /\ ~run.opts.posts_only) =>
              /\ Tallied(run.stats.followers) = Len(FollowersData(run.input))
              /\ Tallied(run.stats.following) = Len(FollowingData(run.input))

(* A run on a file with a post, a follower and a following entry, in which *)
(* one record was created, one skipped and one failed.                     *)
MixedCountersSeen ==
    /\ Reconciled
    /\ run.cmd = "import"
    /\ run.stats.posts.created = 1
    /\ run.stats.followers.skipped = 1
    /\ run.stats.following.errors = 1
    /\ PostsFound = 1

(* C28: in a run of import_tiktok_json without dry_run and without         *)
(* clear_existing the created counter of every kind is the number of rows  *)
(* of that kind the run added, also when the file repeats a UserName or a  *)
(* post id.                                                                *)
CreatedCountsRowsAdded ==
    (/\ Reconciled
     /\ run.cmd = "import"
     /\ ~run.opts.dry_run
     /\ ~run.opts.clear_existing)
    => /\ run.stats.posts.created = BagCardinality(posts) - BagCardinality(pre.posts)
       /\ run.stats.followers.created
              = BagCardinality(followers) - BagCardinality(pre.followers)
       /\ run.stats.following.created
              = BagCardinality(following) - BagCardinality(pre.following)

-----------------------------------------------------------------------------
(* views.py and analytics.py: the post API.  The date of a post is the     *)
(* number of its day, counted from the first of January 2025, a Wednesday, *)
(* which is day 1; the days before it have the numbers 0, -1 and so on.    *)
(* The time of day is left out.  A date in a request is                    *)
(* <<year, month, day>>.                                                   *)

Year == 2025
MonthLengths == <<31, 28, 31, 30, 31, 30, 31, 31, 30, 31, 30, 31>>

(* The days of a common year before a month. *)
RECURSIVE DaysBefore(_)
DaysBefore(month) ==
    IF month = 1 THEN 0 ELSE DaysBefore(month - 1) + MonthLengths[month - 1]

(* The proleptic Gregorian calendar of datetime. *)
IsLeap(year) == year % 4 = 0 /\ (year % 100 # 0 \/ year % 400 = 0)

DaysInMonth(year, month) == IF month = 2 /\ IsLeap(year) THEN 29 ELSE MonthLengths[month]

DaysBeforeMonth(year, month) ==
    DaysBefore(month) + (IF month > 2 /\ IsLeap(year) THEN 1 ELSE 0)

DaysBeforeYear(year) ==
    365 * (year - 1) + ((year - 1) \div 4) - ((year - 1) \div 100) + ((year - 1) \div 400)

(* The number of the day <<year, month, day>>. *)
DayNumber(year, month, day) ==
    DaysBeforeYear(year) - DaysBeforeYear(Year) + DaysBeforeMonth(year, month) + day

(* The year, the month and the day of the month of a day. *)
YearOf(date) ==
    LET n == date + DaysBeforeYear(Year) - 1
        n400 == n \div 146097
        n100 == (n % 146097) \div 36524
        n4 == ((n % 146097) % 36524) \div 1461
        n1 == (((n % 146097) % 36524) % 1461) \div 365
        year == 400 * n400 + 100 * n100 + 4 * n4 + n1 + 1
    IN  IF n1 = 4 \/ n100 = 4 THEN year - 1 ELSE year

MonthOf(date) ==
    CHOOSE m \in 1..12 :
        /\ DayNumber(YearOf(date), m, 1) <= date
        /\ date < DayNumber(YearOf(date), m, 1) + DaysInMonth(YearOf(date), m)

DayOfMonth(date) == date - DayNumber(YearOf(date), MonthOf(date), 1) + 1

(* TruncDate, TruncWeek (the Monday of the week) and TruncMonth (the first *)
(* of the month).                                                          *)
TruncDate(date) == date
TruncWeek(date) == date - ((date + 1) % 7)
TruncMonth(date) == DayNumber(YearOf(date), MonthOf(date), 1)

(* The rows of a table, the ascending order of a set of numbers and the    *)
(* sum of a bag of numbers.                                                *)
Rows(T) == BagToSet(T)

RECURSIVE SortedAscending(_)
SortedAscending(S) ==
    IF S = {} THEN <<>>
    ELSE LET least == CHOOSE x \in S : \A y \in S : x <= y
         IN  <<least>> \o SortedAscending(S \ {least})

RECURSIVE SumBag(_)
SumBag(B) ==
    IF DOMAIN B = {} THEN 0
    ELSE LET v == CHOOSE x \in DOMAIN B : TRUE
         IN  v * B[v] + SumBag([x \in DOMAIN B \ {v} |-> B[x]])

(* The values of likes and the values of views that are not null, of some  *)
(* rows.                                                                   *)
LikesOf(rows) ==
    [v \in {r.likes : r \in rows} |-> Cardinality({r \in rows : r.likes = v})]

ViewsOf(rows) ==
    LET known == {r \in rows : r.views # None}
    IN  [v \in {Value(r.views) : r \in known} |->
            Cardinality({r \in known : Value(r.views) = v})]

(* Sum, Count and Avg of Django over the values that are not null; Sum and *)
(* Avg of no value are None.                                               *)
DbSum(B) == IF DOMAIN B = {} THEN None ELSE Some(SumBag(B))
DbCount(B) == BagCardinality(B)
DbAvg(B) == IF DOMAIN B = {} THEN None ELSE Some(Round2(SumBag(B), BagCardinality(B)))

(* x or 0 *)
OrZero(x) == IF x = None THEN 0 ELSE Value(x)

(* posts.annotate(period=...) of trends *)
TrendPeriod(grouping, date) ==
    IF grouping = "week" THEN TruncWeek(date)
    ELSE IF grouping = "month" THEN TruncMonth(date)
    ELSE TruncDate(date)

(* Post.objects.filter(date__gte=start_date, date__lte=end_date) *)
PostsBetween(T, start_date, end_date) ==
    {r \in Rows(T) : start_date <= r.date /\ r.date <= end_date}

(* The buckets of trends, in the order of their period. *)
TrendBuckets(T, grouping, days, now) ==
    LET window == PostsBetween(T, now - days, now)
    IN  [i \in 1..Cardinality({TrendPeriod(grouping, r.date) : r \in window}) |->
            LET period == SortedAscending({TrendPeriod(grouping, r.date) : r \in window})[i]
            IN  [period |-> period,
                 rows |-> {r \in window : TrendPeriod(grouping, r.date) = period}]]

(* PostViewSet.trends: Sum of likes and of views.                          *)
PostViewSetTrends(st, grouping, days, now) ==
    LET buckets == TrendBuckets(st.posts, grouping, days, now)
    IN  [view |-> "trends", viewset |-> "PostViewSet",
         request |-> [grouping |-> grouping, days |-> days, now |-> now],
         start_date |-> now - days,
         end_date |-> now,
         data |-> [i \in 1..Len(buckets) |->
                      [date |-> buckets[i].period,
                       total_likes |-> OrZero(DbSum(LikesOf(buckets[i].rows))),
                       total_views |-> OrZero(DbSum(ViewsOf(buckets[i].rows))),
                       avg_likes |-> OrZero(DbAvg(LikesOf(buckets[i].rows))),
                       avg_views |-> OrZero(DbAvg(ViewsOf(buckets[i].rows))),
                       post_count |-> Cardinality(buckets[i].rows)]]]

(* AnalyticsViewSet.trends: Count of likes and of views.                   *)
AnalyticsViewSetTrends(st, grouping, days, now) ==
    LET buckets == TrendBuckets(st.posts, grouping, days, now)
    IN  [view |-> "trends", viewset |-> "AnalyticsViewSet",
         request |-> [grouping |-> grouping, days |-> days, now |-> now],
         start_date |-> now - days,
         end_date |-> now,
         data |-> [i \in 1..Len(buckets) |->
                      [date |-> buckets[i].period,
                       total_likes |-> DbCount(LikesOf(buckets[i].rows)),
                       total_views |-> DbCount(ViewsOf(buckets[i].rows)),
                       avg_likes |-> OrZero(DbAvg(LikesOf(buckets[i].rows))),
                       avg_views |-> OrZero(DbAvg(ViewsOf(buckets[i].rows))),
                       post_count |-> Cardinality(buckets[i].rows)]]]


(* The sequence of the elements of S in which a stands before b whenever   *)
(* Before(a, b); Before is a strict total order on S.                      *)
SortBy(S, Before(_, _)) ==
    CHOOSE s \in [1..Cardinality(S) -> S] :
        /\ \A i, j \in 1..Cardinality(S) : i # j => s[i] # s[j]
        /\ \A i, j \in 1..Cardinality(S) : i < j => Before(s[i], s[j])

Position(order, r) == CHOOSE i \in 1..Len(order) : order[i] = r

(* The orders in which the database may return rows that the ORDER BY of a *)
(* query does not tell apart.                                              *)
RowOrders(T) ==
    {s \in [1..Cardinality(Rows(T)) -> Rows(T)] :
        \A i, j \in 1..Cardinality(Rows(T)) : i # j => s[i] # s[j]}

(* _get_period_annotation and _get_days_delta: a window that is not known  *)
(* is a week.                                                              *)
WindowPeriod(window, date) ==
    IF window = "daily" THEN TruncDate(date)
    ELSE IF window = "monthly" THEN TruncMonth(date)
    ELSE TruncWeek(date)

DaysMap == [daily |-> 1, weekly |-> 7, monthly |-> 30]

GetDaysDelta(window) == IF window \in DOMAIN DaysMap THEN DaysMap[window] ELSE DaysMap["weekly"]

(* periods[:10] *)
MaxPeriods == 10

(* strftime: %B is the name of the month and %b its first three letters,   *)
(* %d the day in two digits, %Y the year in as many digits as it has.      *)
MonthNames ==
    <<Text(<<"J", "a", "n", "u", "a", "r", "y">>),
      Text(<<"F", "e", "b", "r", "u", "a", "r", "y">>),
      Text(<<"M", "a", "r", "c", "h">>),
      Text(<<"A", "p", "r", "i", "l">>),
      Text(<<"M", "a", "y">>),
      Text(<<"J", "u", "n", "e">>),
      Text(<<"J", "u", "l", "y">>),
      Text(<<"A", "u", "g", "u", "s", "t">>),
      Text(<<"S", "e", "p", "t", "e", "m", "b", "e", "r">>),
      Text(<<"O", "c", "t", "o", "b", "e", "r">>),
      Text(<<"N", "o", "v", "e", "m", "b", "e", "r">>),
      Text(<<"D", "e", "c", "e", "m", "b", "e", "r">>)>>

RECURSIVE Decimal(_)
Decimal(n) ==
    IF n < 10 THEN <<Ord("0") + n>> ELSE Append(Decimal(n \div 10), Ord("0") + (n % 10))

TwoDigits(n) == IF n < 10 THEN <<Ord("0")>> \o Decimal(n) ELSE Decimal(n)

(* _get_period_label *)
GetPeriodLabel(period, window) ==
    LET day == Take(MonthNames[MonthOf(period)], 3) \o <<Space>>
               \o TwoDigits(DayOfMonth(period)) \o Text(<<",", " ">>)
               \o Decimal(YearOf(period))
    IN  IF window = "daily" THEN day
        ELSE IF window = "weekly"
        THEN Text(<<"W", "e", "e", "k", " ", "o", "f", " ">>) \o day
        ELSE MonthNames[MonthOf(period)] \o <<Space>> \o Decimal(YearOf(period))

(* The key of the engagement sort: p.likes + (p.comments or 0) +           *)
(* (p.shares or 0).                                                        *)
Engagement(r) == r.likes + OrZero(r.comments) + OrZero(r.shares)

(* _sort_posts_by_metric.  The list sorted for engagement starts in the    *)
(* default order of the model, date descending, and the sort is stable.  A *)
(* descending ORDER BY puts the rows without views first or last, as the   *)
(* database does.                                                          *)
SortPostsByMetric(rows, metric, limit, order, nulls_first) ==
    LET key(r) == IF metric = "views"
                  THEN (IF r.views # None THEN Value(r.views)
                        ELSE IF nulls_first THEN 1 ELSE -1)
                  ELSE IF metric = "engagement" THEN Engagement(r)
                  ELSE r.likes
        rank(r) == IF metric = "views" /\ r.views = None THEN 1 ELSE 0
        before(a, b) ==
            IF metric = "views" /\ rank(a) # rank(b)
            THEN (IF nulls_first THEN rank(a) > rank(b) ELSE rank(a) < rank(b))
            ELSE IF key(a) # key(b) THEN key(a) > key(b)
            ELSE IF metric = "engagement" /\ a.date # b.date THEN a.date > b.date
            ELSE Position(order, a) < Position(order, b)
    IN  Take(SortBy(rows, before), limit)

(* PostViewSet.top_posts_by_time and AnalyticsViewSet.top_posts_by_time,   *)
(* which are the same code.  The view makes one query for the periods and  *)
(* then one query for the posts of each of them, in autocommit: every      *)
(* query finds the table as it is when the query is made.                  *)

(* periods[:10]: the distinct periods of table T, the latest first.        *)
TopPeriods(T, window) ==
    Take(SortBy({WindowPeriod(window, r.date) : r \in Rows(T)}, LAMBDA a, b : a > b),
         MaxPeriods)

(* Post.objects.filter(date__gte=period, date__lt=period + days_delta)     *)
PeriodPosts(T, period, days_delta) ==
    {r \in Rows(T) : period <= r.date /\ r.date < period + days_delta}

(* One pass of the loop over the periods, on the table T it finds.         *)
TopPostsOfPeriod(T, period, window, limit, metric, order, nulls_first) ==
    [period |-> period,
     period_label |-> GetPeriodLabel(period, window),
     top_posts |-> SortPostsByMetric(PeriodPosts(T, period, GetDaysDelta(window)),
                                     metric, limit, order, nulls_first)]

(* The response, of the entries the loop made.                             *)
TopPostsByTime(window, limit, metric, data) ==
    [view |-> "top_posts_by_time",
     request |-> [window |-> window, limit |-> limit, metric |-> metric],
     data |-> data]

(* Characters: title.lower(), the classes \w and \s of re, and the words   *)
(* of str.split().  The tables are those of Unicode 14.0.0, which the      *)
(* str methods and the re module of the interpreter are built on; a pair   *)
(* <<first, last>> stands for the code points from first to last.          *)
Hash == Ord("#")

InRanges(c, ranges) == \E r \in ranges : r[1] <= c /\ c <= r[2]

(* str.isalnum()                                                           *)
Alphanumeric ==
    {<<48, 57>>, <<65, 90>>, <<97, 122>>, <<170, 170>>, <<178, 179>>,
     <<181, 181>>, <<185, 186>>, <<188, 190>>, <<192, 214>>, <<216, 246>>,
     <<248, 705>>, <<710, 721>>, <<736, 740>>, <<748, 748>>, <<750, 750>>,
     <<880, 884>>, <<886, 887>>, <<890, 893>>, <<895, 895>>, <<902, 902>>,
     <<904, 906>>, <<908, 908>>, <<910, 929>>, <<931, 1013>>,
     <<1015, 1153>>, <<1162, 1327>>, <<1329, 1366>>, <<1369, 1369>>,
     <<1376, 1416>>, <<1488, 1514>>, <<1519, 1522>>, <<1568, 1610>>,
     <<1632, 1641>>, <<1646, 1647>>, <<1649, 1747>>, <<1749, 1749>>,
     <<1765, 1766>>, <<1774, 1788>>, <<1791, 1791>>, <<1808, 1808>>,
     <<1810, 1839>>, <<1869, 1957>>, <<1969, 1969>>, <<1984, 2026>>,
     <<2036, 2037>>, <<2042, 2042>>, <<2048, 2069>>, <<2074, 2074>>,
     <<2084, 2084>>, <<2088, 2088>>, <<2112, 2136>>, <<2144, 2154>>,
     <<2160, 2183>>, <<2185, 2190>>, <<2208, 2249>>, <<2308, 2361>>,
     <<2365, 2365>>, <<2384, 2384>>, <<2392, 2401>>, <<2406, 2415>>,
     <<2417, 2432>>, <<2437, 2444>>, <<2447, 2448>>, <<2451, 2472>>,
     <<2474, 2480>>, <<2482, 2482>>, <<2486, 2489>>, <<2493, 2493>>,
     <<2510, 2510>>, <<2524, 2525>>, <<2527, 2529>>, <<2534, 2545>>,
     <<2548, 2553>>, <<2556, 2556>>, <<2565, 2570>>, <<2575, 2576>>,
     <<2579, 2600>>, <<2602, 2608>>, <<2610, 2611>>, <<2613, 2614>>,
     <<2616, 2617>>, <<2649, 2652>>, <<2654, 2654>>, <<2662, 2671>>,
     <<2674, 2676>>, <<2693, 2701>>, <<2703, 2705>>, <<2707, 2728>>,
     <<2730, 2736>>, <<2738, 2739>>, <<2741, 2745>>, <<2749, 2749>>,
     <<2768, 2768>>, <<2784, 2785>>, <<2790, 2799>>, <<2809, 2809>>,
     <<2821, 2828>>, <<2831, 2832>>, <<2835, 2856>>, <<2858, 2864>>,
     <<2866, 2867>>, <<2869, 2873>>, <<2877, 2877>>, <<2908, 2909>>,
     <<2911, 2913>>, <<2918, 2927>>, <<2929, 2935>>, <<2947, 2947>>,
     <<2949, 2954>>, <<2958, 2960>>, <<2962, 2965>>, <<2969, 2970>>,
     <<2972, 2972>>, <<2974, 2975>>, <<2979, 2980>>, <<2984, 2986>>,
     <<2990, 3001>>, <<3024, 3024>>, <<3046, 3058>>, <<3077, 3084>>,
     <<3086, 3088>>, <<3090, 3112>>, <<3114, 3129>>, <<3133, 3133>>,
     <<3160, 3162>>, <<3165, 3165>>, <<3168, 3169>>, <<3174, 3183>>,
     <<3192, 3198>>, <<3200, 3200>>, <<3205, 3212>>, <<3214, 3216>>,
     <<3218, 3240>>, <<3242, 3251>>, <<3253, 3257>>, <<3261, 3261>>,
     <<3293, 3294>>, <<3296, 3297>>, <<3302, 3311>>, <<3313, 3314>>,
     <<3332, 3340>>, <<3342, 3344>>, <<3346, 3386>>, <<3389, 3389>>,
     <<3406, 3406>>, <<3412, 3414>>, <<3416, 3425>>, <<3430, 3448>>,
     <<3450, 3455>>, <<3461, 3478>>, <<3482, 3505>>, <<3507, 3515>>,
     <<3517, 3517>>, <<3520, 3526>>, <<3558, 3567>>, <<3585, 3632>>,
     <<3634, 3635>>, <<3648, 3654>>, <<3664, 3673>>, <<3713, 3714>>,
     <<3716, 3716>>, <<3718, 3722>>, <<3724, 3747>>, <<3749, 3749>>,
     <<3751, 3760>>, <<3762, 3763>>, <<3773, 3773>>, <<3776, 3780>>,
     <<3782, 3782>>, <<3792, 3801>>, <<3804, 3807>>, <<3840, 3840>>,
     <<3872, 3891>>, <<3904, 3911>>, <<3913, 3948>>, <<3976, 3980>>,
     <<4096, 4138>>, <<4159, 4169>>, <<4176, 4181>>, <<4186, 4189>>,
     <<4193, 4193>>, <<4197, 4198>>, <<4206, 4208>>, <<4213, 4225>>,
     <<4238, 4238>>, <<4240, 4249>>, <<4256, 4293>>, <<4295, 4295>>,
     <<4301, 4301>>, <<4304, 4346>>, <<4348, 4680>>, <<4682, 4685>>,
     <<4688, 4694>>, <<4696, 4696>>, <<4698, 4701>>, <<4704, 4744>>,
     <<4746, 4749>>, <<4752, 4784>>, <<4786, 4789>>, <<4792, 4798>>,
     <<4800, 4800>>, <<4802, 4805>>, <<4808, 4822>>, <<4824, 4880>>,
     <<4882, 4885>>, <<4888, 4954>>, <<4969, 4988>>, <<4992, 5007>>,
     <<5024, 5109>>, <<5112, 5117>>, <<5121, 5740>>, <<5743, 5759>>,
     <<5761, 5786>>, <<5792, 5866>>, <<5870, 5880>>, <<5888, 5905>>,
     <<5919, 5937>>, <<5952, 5969>>, <<5984, 5996>>, <<5998, 6000>>,
     <<6016, 6067>>, <<6103, 6103>>, <<6108, 6108>>, <<6112, 6121>>,
     <<6128, 6137>>, <<6160, 6169>>, <<6176, 6264>>, <<6272, 6276>>,
     <<6279, 6312>>, <<6314, 6314>>, <<6320, 6389>>, <<6400, 6430>>,
     <<6470, 6509>>, <<6512, 6516>>, <<6528, 6571>>, <<6576, 6601>>,
     <<6608, 6618>>, <<6656, 6678>>, <<6688, 6740>>, <<6784, 6793>>,
     <<6800, 6809>>, <<6823, 6823>>, <<6917, 6963>>, <<6981, 6988>>,
     <<6992, 7001>>, <<7043, 7072>>, <<7086, 7141>>, <<7168, 7203>>,
     <<7232, 7241>>, <<7245, 7293>>, <<7296, 7304>>, <<7312, 7354>>,
     <<7357, 7359>>, <<7401, 7404>>, <<7406, 7411>>, <<7413, 7414>>,
     <<7418, 7418>>, <<7424, 7615>>, <<7680, 7957>>, <<7960, 7965>>,
     <<7968, 8005>>, <<8008, 8013>>, <<8016, 8023>>, <<8025, 8025>>,
     <<8027, 8027>>, <<8029, 8029>>, <<8031, 8061>>, <<8064, 8116>>,
     <<8118, 8124>>, <<8126, 8126>>, <<8130, 8132>>, <<8134, 8140>>,
     <<8144, 8147>>, <<8150, 8155>>, <<8160, 8172>>, <<8178, 8180>>,
     <<8182, 8188>>, <<8304, 8305>>, <<8308, 8313>>, <<8319, 8329>>,
     <<8336, 8348>>, <<8450, 8450>>, <<8455, 8455>>, <<8458, 8467>>,
     <<8469, 8469>>, <<8473, 8477>>, <<8484, 8484>>, <<8486, 8486>>,
     <<8488, 8488>>, <<8490, 8493>>, <<8495, 8505>>, <<8508, 8511>>,
     <<8517, 8521>>, <<8526, 8526>>, <<8528, 8585>>, <<9312, 9371>>,
     <<9450, 9471>>, <<10102, 10131>>, <<11264, 11492>>, <<11499, 11502>>,
     <<11506, 11507>>, <<11517, 11517>>, <<11520, 11557>>,
     <<11559, 11559>>, <<11565, 11565>>, <<11568, 11623>>,
     <<11631, 11631>>, <<11648, 11670>>, <<11680, 11686>>,
     <<11688, 11694>>, <<11696, 11702>>, <<11704, 11710>>,
     <<11712, 11718>>, <<11720, 11726>>, <<11728, 11734>>,
     <<11736, 11742>>, <<11823, 11823>>, <<12293, 12295>>,
     <<12321, 12329>>, <<12337, 12341>>, <<12344, 12348>>,
     <<12353, 12438>>, <<12445, 12447>>, <<12449, 12538>>,
     <<12540, 12543>>, <<12549, 12591>>, <<12593, 12686>>,
     <<12690, 12693>>, <<12704, 12735>>, <<12784, 12799>>,
     <<12832, 12841>>, <<12872, 12879>>, <<12881, 12895>>,
     <<12928, 12937>>, <<12977, 12991>>, <<13312, 19903>>,
     <<19968, 42124>>, <<42192, 42237>>, <<42240, 42508>>,
     <<42512, 42539>>, <<42560, 42606>>, <<42623, 42653>>,
     <<42656, 42735>>, <<42775, 42783>>, <<42786, 42888>>,
     <<42891, 42954>>, <<42960, 42961>>, <<42963, 42963>>,
     <<42965, 42969>>, <<42994, 43009>>, <<43011, 43013>>,
     <<43015, 43018>>, <<43020, 43042>>, <<43056, 43061>>,
     <<43072, 43123>>, <<43138, 43187>>, <<43216, 43225>>,
     <<43250, 43255>>, <<43259, 43259>>, <<43261, 43262>>,
     <<43264, 43301>>, <<43312, 43334>>, <<43360, 43388>>,
     <<43396, 43442>>, <<43471, 43481>>, <<43488, 43492>>,
     <<43494, 43518>>, <<43520, 43560>>, <<43584, 43586>>,
     <<43588, 43595>>, <<43600, 43609>>, <<43616, 43638>>,
     <<43642, 43642>>, <<43646, 43695>>, <<43697, 43697>>,
     <<43701, 43702>>, <<43705, 43709>>, <<43712, 43712>>,
     <<43714, 43714>>, <<43739, 43741>>, <<43744, 43754>>,
     <<43762, 43764>>, <<43777, 43782>>, <<43785, 43790>>,
     <<43793, 43798>>, <<43808, 43814>>, <<43816, 43822>>,
     <<43824, 43866>>, <<43868, 43881>>, <<43888, 44002>>,
     <<44016, 44025>>, <<44032, 55203>>, <<55216, 55238>>,
     <<55243, 55291>>, <<63744, 64109>>, <<64112, 64217>>,
     <<64256, 64262>>, <<64275, 64279>>, <<64285, 64285>>,
     <<64287, 64296>>, <<64298, 64310>>, <<64312, 64316>>,
     <<64318, 64318>>, <<64320, 64321>>, <<64323, 64324>>,
     <<64326, 64433>>, <<64467, 64829>>, <<64848, 64911>>,
     <<64914, 64967>>, <<65008, 65019>>, <<65136, 65140>>,
     <<65142, 65276>>, <<65296, 65305>>, <<65313, 65338>>,
     <<65345, 65370>>, <<65382, 65470>>, <<65474, 65479>>,
     <<65482, 65487>>, <<65490, 65495>>, <<65498, 65500>>,
     <<65536, 65547>>, <<65549, 65574>>, <<65576, 65594>>,
     <<65596, 65597>>, <<65599, 65613>>, <<65616, 65629>>,
     <<65664, 65786>>, <<65799, 65843>>, <<65856, 65912>>,
     <<65930, 65931>>, <<66176, 66204>>, <<66208, 66256>>,
     <<66273, 66299>>, <<66304, 66339>>, <<66349, 66378>>,
     <<66384, 66421>>, <<66432, 66461>>, <<66464, 66499>>,
     <<66504, 66511>>, <<66513, 66517>>, <<66560, 66717>>,
     <<66720, 66729>>, <<66736, 66771>>, <<66776, 66811>>,
     <<66816, 66855>>, <<66864, 66915>>, <<66928, 66938>>,
     <<66940, 66954>>, <<66956, 66962>>, <<66964, 66965>>,
     <<66967, 66977>>, <<66979, 66993>>, <<66995, 67001>>,
     <<67003, 67004>>, <<67072, 67382>>, <<67392, 67413>>,
     <<67424, 67431>>, <<67456, 67461>>, <<67463, 67504>>,
     <<67506, 67514>>, <<67584, 67589>>, <<67592, 67592>>,
     <<67594, 67637>>, <<67639, 67640>>, <<67644, 67644>>,
     <<67647, 67669>>, <<67672, 67702>>, <<67705, 67742>>,
     <<67751, 67759>>, <<67808, 67826>>, <<67828, 67829>>,
     <<67835, 67867>>, <<67872, 67897>>, <<67968, 68023>>,
     <<68028, 68047>>, <<68050, 68096>>, <<68112, 68115>>,
     <<68117, 68119>>, <<68121, 68149>>, <<68160, 68168>>,
     <<68192, 68222>>, <<68224, 68255>>, <<68288, 68295>>,
     <<68297, 68324>>, <<68331, 68335>>, <<68352, 68405>>,
     <<68416, 68437>>, <<68440, 68466>>, <<68472, 68497>>,
     <<68521, 68527>>, <<68608, 68680>>, <<68736, 68786>>,
     <<68800, 68850>>, <<68858, 68899>>, <<68912, 68921>>,
     <<69216, 69246>>, <<69248, 69289>>, <<69296, 69297>>,
     <<69376, 69415>>, <<69424, 69445>>, <<69457, 69460>>,
     <<69488, 69505>>, <<69552, 69579>>, <<69600, 69622>>,
     <<69635, 69687>>, <<69714, 69743>>, <<69745, 69746>>,
     <<69749, 69749>>, <<69763, 69807>>, <<69840, 69864>>,
     <<69872, 69881>>, <<69891, 69926>>, <<69942, 69951>>,
     <<69956, 69956>>, <<69959, 69959>>, <<69968, 70002>>,
     <<70006, 70006>>, <<70019, 70066>>, <<70081, 70084>>,
     <<70096, 70106>>, <<70108, 70108>>, <<70113, 70132>>,
     <<70144, 70161>>, <<70163, 70187>>, <<70272, 70278>>,
     <<70280, 70280>>, <<70282, 70285>>, <<70287, 70301>>,
     <<70303, 70312>>, <<70320, 70366>>, <<70384, 70393>>,
     <<70405, 70412>>, <<70415, 70416>>, <<70419, 70440>>,
     <<70442, 70448>>, <<70450, 70451>>, <<70453, 70457>>,
     <<70461, 70461>>, <<70480, 70480>>, <<70493, 70497>>,
     <<70656, 70708>>, <<70727, 70730>>, <<70736, 70745>>,
     <<70751, 70753>>, <<70784, 70831>>, <<70852, 70853>>,
     <<70855, 70855>>, <<70864, 70873>>, <<71040, 71086>>,
     <<71128, 71131>>, <<71168, 71215>>, <<71236, 71236>>,
     <<71248, 71257>>, <<71296, 71338>>, <<71352, 71352>>,
     <<71360, 71369>>, <<71424, 71450>>, <<71472, 71483>>,
     <<71488, 71494>>, <<71680, 71723>>, <<71840, 71922>>,
     <<71935, 71942>>, <<71945, 71945>>, <<71948, 71955>>,
     <<71957, 71958>>, <<71960, 71983>>, <<71999, 71999>>,
     <<72001, 72001>>, <<72016, 72025>>, <<72096, 72103>>,
     <<72106, 72144>>, <<72161, 72161>>, <<72163, 72163>>,
     <<72192, 72192>>, <<72203, 72242>>, <<72250, 72250>>,
     <<72272, 72272>>, <<72284, 72329>>, <<72349, 72349>>,
     <<72368, 72440>>, <<72704, 72712>>, <<72714, 72750>>,
     <<72768, 72768>>, <<72784, 72812>>, <<72818, 72847>>,
     <<72960, 72966>>, <<72968, 72969>>, <<72971, 73008>>,
     <<73030, 73030>>, <<73040, 73049>>, <<73056, 73061>>,
     <<73063, 73064>>, <<73066, 73097>>, <<73112, 73112>>,
     <<73120, 73129>>, <<73440, 73458>>, <<73648, 73648>>,
     <<73664, 73684>>, <<73728, 74649>>, <<74752, 74862>>,
     <<74880, 75075>>, <<77712, 77808>>, <<77824, 78894>>,
     <<82944, 83526>>, <<92160, 92728>>, <<92736, 92766>>,
     <<92768, 92777>>, <<92784, 92862>>, <<92864, 92873>>,
     <<92880, 92909>>, <<92928, 92975>>, <<92992, 92995>>,
     <<93008, 93017>>, <<93019, 93025>>, <<93027, 93047>>,
     <<93053, 93071>>, <<93760, 93846>>, <<93952, 94026>>,
     <<94032, 94032>>, <<94099, 94111>>, <<94176, 94177>>,
     <<94179, 94179>>, <<94208, 100343>>, <<100352, 101589>>,
     <<101632, 101640>>, <<110576, 110579>>, <<110581, 110587>>,
     <<110589, 110590>>, <<110592, 110882>>, <<110928, 110930>>,
     <<110948, 110951>>, <<110960, 111355>>, <<113664, 113770>>,
     <<113776, 113788>>, <<113792, 113800>>, <<113808, 113817>>,
     <<119520, 119539>>, <<119648, 119672>>, <<119808, 119892>>,
     <<119894, 119964>>, <<119966, 119967>>, <<119970, 119970>>,
     <<119973, 119974>>, <<119977, 119980>>, <<119982, 119993>>,
     <<119995, 119995>>, <<119997, 120003>>, <<120005, 120069>>,
     <<120071, 120074>>, <<120077, 120084>>, <<120086, 120092>>,
     <<120094, 120121>>, <<120123, 120126>>, <<120128, 120132>>,
     <<120134, 120134>>, <<120138, 120144>>, <<120146, 120485>>,
     <<120488, 120512>>, <<120514, 120538>>, <<120540, 120570>>,
     <<120572, 120596>>, <<120598, 120628>>, <<120630, 120654>>,
     <<120656, 120686>>, <<120688, 120712>>, <<120714, 120744>>,
     <<120746, 120770>>, <<120772, 120779>>, <<120782, 120831>>,
     <<122624, 122654>>, <<123136, 123180>>, <<123191, 123197>>,
     <<123200, 123209>>, <<123214, 123214>>, <<123536, 123565>>,
     <<123584, 123627>>, <<123632, 123641>>, <<124896, 124902>>,
     <<124904, 124907>>, <<124909, 124910>>, <<124912, 124926>>,
     <<124928, 125124>>, <<125127, 125135>>, <<125184, 125251>>,
     <<125259, 125259>>, <<125264, 125273>>, <<126065, 126123>>,
     <<126125, 126127>>, <<126129, 126132>>, <<126209, 126253>>,
     <<126255, 126269>>, <<126464, 126467>>, <<126469, 126495>>,
     <<126497, 126498>>, <<126500, 126500>>, <<126503, 126503>>,
     <<126505, 126514>>, <<126516, 126519>>, <<126521, 126521>>,
     <<126523, 126523>>, <<126530, 126530>>, <<126535, 126535>>,
     <<126537, 126537>>, <<126539, 126539>>, <<126541, 126543>>,
     <<126545, 126546>>, <<126548, 126548>>, <<126551, 126551>>,
     <<126553, 126553>>, <<126555, 126555>>, <<126557, 126557>>,
     <<126559, 126559>>, <<126561, 126562>>, <<126564, 126564>>,
     <<126567, 126570>>, <<126572, 126578>>, <<126580, 126583>>,
     <<126585, 126588>>, <<126590, 126590>>, <<126592, 126601>>,
     <<126603, 126619>>, <<126625, 126627>>, <<126629, 126633>>,
     <<126635, 126651>>, <<127232, 127244>>, <<130032, 130041>>,
     <<131072, 173791>>, <<173824, 177976>>, <<177984, 178205>>,
     <<178208, 183969>>, <<183984, 191456>>, <<194560, 195101>>,
     <<196608, 201546>>}

(* The characters with the property Case_Ignorable.                        *)
CaseIgnorable ==
    {<<39, 39>>, <<46, 46>>, <<58, 58>>, <<94, 94>>, <<96, 96>>,
     <<168, 168>>, <<173, 173>>, <<175, 175>>, <<180, 180>>, <<183, 184>>,
     <<688, 879>>, <<884, 885>>, <<890, 890>>, <<900, 901>>, <<903, 903>>,
     <<1155, 1161>>, <<1369, 1369>>, <<1375, 1375>>, <<1425, 1469>>,
     <<1471, 1471>>, <<1473, 1474>>, <<1476, 1477>>, <<1479, 1479>>,
     <<1524, 1524>>, <<1536, 1541>>, <<1552, 1562>>, <<1564, 1564>>,
     <<1600, 1600>>, <<1611, 1631>>, <<1648, 1648>>, <<1750, 1757>>,
     <<1759, 1768>>, <<1770, 1773>>, <<1807, 1807>>, <<1809, 1809>>,
     <<1840, 1866>>, <<1958, 1968>>, <<2027, 2037>>, <<2042, 2042>>,
     <<2045, 2045>>, <<2070, 2093>>, <<2137, 2139>>, <<2184, 2184>>,
     <<2192, 2193>>, <<2200, 2207>>, <<2249, 2306>>, <<2362, 2362>>,
     <<2364, 2364>>, <<2369, 2376>>, <<2381, 2381>>, <<2385, 2391>>,
     <<2402, 2403>>, <<2417, 2417>>, <<2433, 2433>>, <<2492, 2492>>,
     <<2497, 2500>>, <<2509, 2509>>, <<2530, 2531>>, <<2558, 2558>>,
     <<2561, 2562>>, <<2620, 2620>>, <<2625, 2626>>, <<2631, 2632>>,
     <<2635, 2637>>, <<2641, 2641>>, <<2672, 2673>>, <<2677, 2677>>,
     <<2689, 2690>>, <<2748, 2748>>, <<2753, 2757>>, <<2759, 2760>>,
     <<2765, 2765>>, <<2786, 2787>>, <<2810, 2815>>, <<2817, 2817>>,
     <<2876, 2876>>, <<2879, 2879>>, <<2881, 2884>>, <<2893, 2893>>,
     <<2901, 2902>>, <<2914, 2915>>, <<2946, 2946>>, <<3008, 3008>>,
     <<3021, 3021>>, <<3072, 3072>>, <<3076, 3076>>, <<3132, 3132>>,
     <<3134, 3136>>, <<3142, 3144>>, <<3146, 3149>>, <<3157, 3158>>,
     <<3170, 3171>>, <<3201, 3201>>, <<3260, 3260>>, <<3263, 3263>>,
     <<3270, 3270>>, <<3276, 3277>>, <<3298, 3299>>, <<3328, 3329>>,
     <<3387, 3388>>, <<3393, 3396>>, <<3405, 3405>>, <<3426, 3427>>,
     <<3457, 3457>>, <<3530, 3530>>, <<3538, 3540>>, <<3542, 3542>>,
     <<3633, 3633>>, <<3636, 3642>>, <<3654, 3662>>, <<3761, 3761>>,
     <<3764, 3772>>, <<3782, 3782>>, <<3784, 3789>>, <<3864, 3865>>,
     <<3893, 3893>>, <<3895, 3895>>, <<3897, 3897>>, <<3953, 3966>>,
     <<3968, 3972>>, <<3974, 3975>>, <<3981, 3991>>, <<3993, 4028>>,
     <<4038, 4038>>, <<4141, 4144>>, <<4146, 4151>>, <<4153, 4154>>,
     <<4157, 4158>>, <<4184, 4185>>, <<4190, 4192>>, <<4209, 4212>>,
     <<4226, 4226>>, <<4229, 4230>>, <<4237, 4237>>, <<4253, 4253>>,
     <<4348, 4348>>, <<4957, 4959>>, <<5906, 5908>>, <<5938, 5939>>,
     <<5970, 5971>>, <<6002, 6003>>, <<6068, 6069>>, <<6071, 6077>>,
     <<6086, 6086>>, <<6089, 6099>>, <<6103, 6103>>, <<6109, 6109>>,
     <<6155, 6159>>, <<6211, 6211>>, <<6277, 6278>>, <<6313, 6313>>,
     <<6432, 6434>>, <<6439, 6440>>, <<6450, 6450>>, <<6457, 6459>>,
     <<6679, 6680>>, <<6683, 6683>>, <<6742, 6742>>, <<6744, 6750>>,
     <<6752, 6752>>, <<6754, 6754>>, <<6757, 6764>>, <<6771, 6780>>,
     <<6783, 6783>>, <<6823, 6823>>, <<6832, 6862>>, <<6912, 6915>>,
     <<6964, 6964>>, <<6966, 6970>>, <<6972, 6972>>, <<6978, 6978>>,
     <<7019, 7027>>, <<7040, 7041>>, <<7074, 7077>>, <<7080, 7081>>,
     <<7083, 7085>>, <<7142, 7142>>, <<7144, 7145>>, <<7149, 7149>>,
     <<7151, 7153>>, <<7212, 7219>>, <<7222, 7223>>, <<7288, 7293>>,
     <<7376, 7378>>, <<7380, 7392>>, <<7394, 7400>>, <<7405, 7405>>,
     <<7412, 7412>>, <<7416, 7417>>, <<7468, 7530>>, <<7544, 7544>>,
     <<7579, 7679>>, <<8125, 8125>>, <<8127, 8129>>, <<8141, 8143>>,
     <<8157, 8159>>, <<8173, 8175>>, <<8189, 8190>>, <<8203, 8207>>,
     <<8216, 8217>>, <<8228, 8228>>, <<8231, 8231>>, <<8234, 8238>>,
     <<8288, 8292>>, <<8294, 8303>>, <<8305, 8305>>, <<8319, 8319>>,
     <<8336, 8348>>, <<8400, 8432>>, <<11388, 11389>>, <<11503, 11505>>,
     <<11631, 11631>>, <<11647, 11647>>, <<11744, 11775>>,
     <<11823, 11823>>, <<12293, 12293>>, <<12330, 12333>>,
     <<12337, 12341>>, <<12347, 12347>>, <<12441, 12446>>,
     <<12540, 12542>>, <<40981, 40981>>, <<42232, 42237>>,
     <<42508, 42508>>, <<42607, 42610>>, <<42612, 42621>>,
     <<42623, 42623>>, <<42652, 42655>>, <<42736, 42737>>,
     <<42752, 42785>>, <<42864, 42864>>, <<42888, 42890>>,
     <<42994, 42996>>, <<43000, 43001>>, <<43010, 43010>>,
     <<43014, 43014>>, <<43019, 43019>>, <<43045, 43046>>,
     <<43052, 43052>>, <<43204, 43205>>, <<43232, 43249>>,
     <<43263, 43263>>, <<43302, 43309>>, <<43335, 43345>>,
     <<43392, 43394>>, <<43443, 43443>>, <<43446, 43449>>,
     <<43452, 43453>>, <<43471, 43471>>, <<43493, 43494>>,
     <<43561, 43566>>, <<43569, 43570>>, <<43573, 43574>>,
     <<43587, 43587>>, <<43596, 43596>>, <<43632, 43632>>,
     <<43644, 43644>>, <<43696, 43696>>, <<43698, 43700>>,
     <<43703, 43704>>, <<43710, 43711>>, <<43713, 43713>>,
     <<43741, 43741>>, <<43756, 43757>>, <<43763, 43764>>,
     <<43766, 43766>>, <<43867, 43871>>, <<43881, 43883>>,
     <<44005, 44005>>, <<44008, 44008>>, <<44013, 44013>>,
     <<64286, 64286>>, <<64434, 64450>>, <<65024, 65039>>,
     <<65043, 65043>>, <<65056, 65071>>, <<65106, 65106>>,
     <<65109, 65109>>, <<65279, 65279>>, <<65287, 65287>>,
     <<65294, 65294>>, <<65306, 65306>>, <<65342, 65342>>,
     <<65344, 65344>>, <<65392, 65392>>, <<65438, 65439>>,
     <<65507, 65507>>, <<65529, 65531>>, <<66045, 66045>>,
     <<66272, 66272>>, <<66422, 66426>>, <<67456, 67461>>,
     <<67463, 67504>>, <<67506, 67514>>, <<68097, 68099>>,
     <<68101, 68102>>, <<68108, 68111>>, <<68152, 68154>>,
     <<68159, 68159>>, <<68325, 68326>>, <<68900, 68903>>,
     <<69291, 69292>>, <<69446, 69456>>, <<69506, 69509>>,
     <<69633, 69633>>, <<69688, 69702>>, <<69744, 69744>>,
     <<69747, 69748>>, <<69759, 69761>>, <<69811, 69814>>,
     <<69817, 69818>>, <<69821, 69821>>, <<69826, 69826>>,
     <<69837, 69837>>, <<69888, 69890>>, <<69927, 69931>>,
     <<69933, 69940>>, <<70003, 70003>>, <<70016, 70017>>,
     <<70070, 70078>>, <<70089, 70092>>, <<70095, 70095>>,
     <<70191, 70193>>, <<70196, 70196>>, <<70198, 70199>>,
     <<70206, 70206>>, <<70367, 70367>>, <<70371, 70378>>,
     <<70400, 70401>>, <<70459, 70460>>, <<70464, 70464>>,
     <<70502, 70508>>, <<70512, 70516>>, <<70712, 70719>>,
     <<70722, 70724>>, <<70726, 70726>>, <<70750, 70750>>,
     <<70835, 70840>>, <<70842, 70842>>, <<70847, 70848>>,
     <<70850, 70851>>, <<71090, 71093>>, <<71100, 71101>>,
     <<71103, 71104>>, <<71132, 71133>>, <<71219, 71226>>,
     <<71229, 71229>>, <<71231, 71232>>, <<71339, 71339>>,
     <<71341, 71341>>, <<71344, 71349>>, <<71351, 71351>>,
     <<71453, 71455>>, <<71458, 71461>>, <<71463, 71467>>,
     <<71727, 71735>>, <<71737, 71738>>, <<71995, 71996>>,
     <<71998, 71998>>, <<72003, 72003>>, <<72148, 72151>>,
     <<72154, 72155>>, <<72160, 72160>>, <<72193, 72202>>,
     <<72243, 72248>>, <<72251, 72254>>, <<72263, 72263>>,
     <<72273, 72278>>, <<72281, 72283>>, <<72330, 72342>>,
     <<72344, 72345>>, <<72752, 72758>>, <<72760, 72765>>,
     <<72767, 72767>>, <<72850, 72871>>, <<72874, 72880>>,
     <<72882, 72883>>, <<72885, 72886>>, <<73009, 73014>>,
     <<73018, 73018>>, <<73020, 73021>>, <<73023, 73029>>,
     <<73031, 73031>>, <<73104, 73105>>, <<73109, 73109>>,
     <<73111, 73111>>, <<73459, 73460>>, <<78896, 78904>>,
     <<92912, 92916>>, <<92976, 92982>>, <<92992, 92995>>,
     <<94031, 94031>>, <<94095, 94111>>, <<94176, 94177>>,
     <<94179, 94180>>, <<110576, 110579>>, <<110581, 110587>>,
     <<110589, 110590>>, <<113821, 113822>>, <<113824, 113827>>,
     <<118528, 118573>>, <<118576, 118598>>, <<119143, 119145>>,
     <<119155, 119170>>, <<119173, 119179>>, <<119210, 119213>>,
     <<119362, 119364>>, <<121344, 121398>>, <<121403, 121452>>,
     <<121461, 121461>>, <<121476, 121476>>, <<121499, 121503>>,
     <<121505, 121519>>, <<122880, 122886>>, <<122888, 122904>>,
     <<122907, 122913>>, <<122915, 122916>>, <<122918, 122922>>,
     <<123184, 123197>>, <<123566, 123566>>, <<123628, 123631>>,
     <<125136, 125142>>, <<125252, 125259>>, <<127995, 127999>>,
     <<917505, 917505>>, <<917536, 917631>>, <<917760, 917999>>}

(* The characters with the property Cased that are not Case_Ignorable.     *)
Cased ==
    {<<65, 90>>, <<97, 122>>, <<170, 170>>, <<181, 181>>, <<186, 186>>,
     <<192, 214>>, <<216, 246>>, <<248, 442>>, <<444, 447>>, <<452, 659>>,
     <<661, 687>>, <<880, 883>>, <<886, 887>>, <<891, 893>>, <<895, 895>>,
     <<902, 902>>, <<904, 906>>, <<908, 908>>, <<910, 929>>, <<931, 1013>>,
     <<1015, 1153>>, <<1162, 1327>>, <<1329, 1366>>, <<1376, 1416>>,
     <<4256, 4293>>, <<4295, 4295>>, <<4301, 4301>>, <<4304, 4346>>,
     <<4349, 4351>>, <<5024, 5109>>, <<5112, 5117>>, <<7296, 7304>>,
     <<7312, 7354>>, <<7357, 7359>>, <<7424, 7467>>, <<7531, 7543>>,
     <<7545, 7578>>, <<7680, 7957>>, <<7960, 7965>>, <<7968, 8005>>,
     <<8008, 8013>>, <<8016, 8023>>, <<8025, 8025>>, <<8027, 8027>>,
     <<8029, 8029>>, <<8031, 8061>>, <<8064, 8116>>, <<8118, 8124>>,
     <<8126, 8126>>, <<8130, 8132>>, <<8134, 8140>>, <<8144, 8147>>,
     <<8150, 8155>>, <<8160, 8172>>, <<8178, 8180>>, <<8182, 8188>>,
     <<8450, 8450>>, <<8455, 8455>>, <<8458, 8467>>, <<8469, 8469>>,
     <<8473, 8477>>, <<8484, 8484>>, <<8486, 8486>>, <<8488, 8488>>,
     <<8490, 8493>>, <<8495, 8500>>, <<8505, 8505>>, <<8508, 8511>>,
     <<8517, 8521>>, <<8526, 8526>>, <<8544, 8575>>, <<8579, 8580>>,
     <<9398, 9449>>, <<11264, 11387>>, <<11390, 11492>>, <<11499, 11502>>,
     <<11506, 11507>>, <<11520, 11557>>, <<11559, 11559>>,
     <<11565, 11565>>, <<42560, 42605>>, <<42624, 42651>>,
     <<42786, 42863>>, <<42865, 42887>>, <<42891, 42894>>,
     <<42896, 42954>>, <<42960, 42961>>, <<42963, 42963>>,
     <<42965, 42969>>, <<42997, 42998>>, <<43002, 43002>>,
     <<43824, 43866>>, <<43872, 43880>>, <<43888, 43967>>,
     <<64256, 64262>>, <<64275, 64279>>, <<65313, 65338>>,
     <<65345, 65370>>, <<66560, 66639>>, <<66736, 66771>>,
     <<66776, 66811>>, <<66928, 66938>>, <<66940, 66954>>,
     <<66956, 66962>>, <<66964, 66965>>, <<66967, 66977>>,
     <<66979, 66993>>, <<66995, 67001>>, <<67003, 67004>>,
     <<68736, 68786>>, <<68800, 68850>>, <<71840, 71903>>,
     <<93760, 93823>>, <<119808, 119892>>, <<119894, 119964>>,
     <<119966, 119967>>, <<119970, 119970>>, <<119973, 119974>>,
     <<119977, 119980>>, <<119982, 119993>>, <<119995, 119995>>,
     <<119997, 120003>>, <<120005, 120069>>, <<120071, 120074>>,
     <<120077, 120084>>, <<120086, 120092>>, <<120094, 120121>>,
     <<120123, 120126>>, <<120128, 120132>>, <<120134, 120134>>,
     <<120138, 120144>>, <<120146, 120485>>, <<120488, 120512>>,
     <<120514, 120538>>, <<120540, 120570>>, <<120572, 120596>>,
     <<120598, 120628>>, <<120630, 120654>>, <<120656, 120686>>,
     <<120688, 120712>>, <<120714, 120744>>, <<120746, 120770>>,
     <<120772, 120779>>, <<122624, 122633>>, <<122635, 122654>>,
     <<125184, 125251>>, <<127280, 127305>>, <<127312, 127337>>,
     <<127344, 127369>>}

(* The lower case of the characters that have one of their own: of every   *)
(* step-th code point from first to last, the code point delta further,    *)
(* as <<first, last, step, delta>>.                                        *)
LowerCase ==
    {<<65, 90, 1, 32>>, <<192, 214, 1, 32>>, <<216, 222, 1, 32>>,
     <<256, 302, 2, 1>>, <<306, 310, 2, 1>>, <<313, 327, 2, 1>>,
     <<330, 374, 2, 1>>, <<376, 376, 1, -121>>, <<377, 381, 2, 1>>,
     <<385, 385, 1, 210>>, <<386, 388, 2, 1>>, <<390, 390, 1, 206>>,
     <<391, 391, 1, 1>>, <<393, 394, 1, 205>>, <<395, 395, 1, 1>>,
     <<398, 398, 1, 79>>, <<399, 399, 1, 202>>, <<400, 400, 1, 203>>,
     <<401, 401, 1, 1>>, <<403, 403, 1, 205>>, <<404, 404, 1, 207>>,
     <<406, 406, 1, 211>>, <<407, 407, 1, 209>>, <<408, 408, 1, 1>>,
     <<412, 412, 1, 211>>, <<413, 413, 1, 213>>, <<415, 415, 1, 214>>,
     <<416, 420, 2, 1>>, <<422, 422, 1, 218>>, <<423, 423, 1, 1>>,
     <<425, 425, 1, 218>>, <<428, 428, 1, 1>>, <<430, 430, 1, 218>>,
     <<431, 431, 1, 1>>, <<433, 434, 1, 217>>, <<435, 437, 2, 1>>,
     <<439, 439, 1, 219>>, <<440, 440, 1, 1>>, <<444, 444, 1, 1>>,
     <<452, 452, 1, 2>>, <<453, 453, 1, 1>>, <<455, 455, 1, 2>>,
     <<456, 456, 1, 1>>, <<458, 458, 1, 2>>, <<459, 475, 2, 1>>,
     <<478, 494, 2, 1>>, <<497, 497, 1, 2>>, <<498, 500, 2, 1>>,
     <<502, 502, 1, -97>>, <<503, 503, 1, -56>>, <<504, 542, 2, 1>>,
     <<544, 544, 1, -130>>, <<546, 562, 2, 1>>, <<570, 570, 1, 10795>>,
     <<571, 571, 1, 1>>, <<573, 573, 1, -163>>, <<574, 574, 1, 10792>>,
     <<577, 577, 1, 1>>, <<579, 579, 1, -195>>, <<580, 580, 1, 69>>,
     <<581, 581, 1, 71>>, <<582, 590, 2, 1>>, <<880, 882, 2, 1>>,
     <<886, 886, 1, 1>>, <<895, 895, 1, 116>>, <<902, 902, 1, 38>>,
     <<904, 906, 1, 37>>, <<908, 908, 1, 64>>, <<910, 911, 1, 63>>,
     <<913, 929, 1, 32>>, <<931, 939, 1, 32>>, <<975, 975, 1, 8>>,
     <<984, 1006, 2, 1>>, <<1012, 1012, 1, -60>>, <<1015, 1015, 1, 1>>,
     <<1017, 1017, 1, -7>>, <<1018, 1018, 1, 1>>, <<1021, 1023, 1, -130>>,
     <<1024, 1039, 1, 80>>, <<1040, 1071, 1, 32>>, <<1120, 1152, 2, 1>>,
     <<1162, 1214, 2, 1>>, <<1216, 1216, 1, 15>>, <<1217, 1229, 2, 1>>,
     <<1232, 1326, 2, 1>>, <<1329, 1366, 1, 48>>, <<4256, 4293, 1, 7264>>,
     <<4295, 4295, 1, 7264>>, <<4301, 4301, 1, 7264>>,
     <<5024, 5103, 1, 38864>>, <<5104, 5109, 1, 8>>,
     <<7312, 7354, 1, -3008>>, <<7357, 7359, 1, -3008>>,
     <<7680, 7828, 2, 1>>, <<7838, 7838, 1, -7615>>, <<7840, 7934, 2, 1>>,
     <<7944, 7951, 1, -8>>, <<7960, 7965, 1, -8>>, <<7976, 7983, 1, -8>>,
     <<7992, 7999, 1, -8>>, <<8008, 8013, 1, -8>>, <<8025, 8031, 2, -8>>,
     <<8040, 8047, 1, -8>>, <<8072, 8079, 1, -8>>, <<8088, 8095, 1, -8>>,
     <<8104, 8111, 1, -8>>, <<8120, 8121, 1, -8>>, <<8122, 8123, 1, -74>>,
     <<8124, 8124, 1, -9>>, <<8136, 8139, 1, -86>>, <<8140, 8140, 1, -9>>,
     <<8152, 8153, 1, -8>>, <<8154, 8155, 1, -100>>, <<8168, 8169, 1, -8>>,
     <<8170, 8171, 1, -112>>, <<8172, 8172, 1, -7>>,
     <<8184, 8185, 1, -128>>, <<8186, 8187, 1, -126>>,
     <<8188, 8188, 1, -9>>, <<8486, 8486, 1, -7517>>,
     <<8490, 8490, 1, -8383>>, <<8491, 8491, 1, -8262>>,
     <<8498, 8498, 1, 28>>, <<8544, 8559, 1, 16>>, <<8579, 8579, 1, 1>>,
     <<9398, 9423, 1, 26>>, <<11264, 11311, 1, 48>>,
     <<11360, 11360, 1, 1>>, <<11362, 11362, 1, -10743>>,
     <<11363, 11363, 1, -3814>>, <<11364, 11364, 1, -10727>>,
     <<11367, 11371, 2, 1>>, <<11373, 11373, 1, -10780>>,
     <<11374, 11374, 1, -10749>>, <<11375, 11375, 1, -10783>>,
     <<11376, 11376, 1, -10782>>, <<11378, 11378, 1, 1>>,
     <<11381, 11381, 1, 1>>, <<11390, 11391, 1, -10815>>,
     <<11392, 11490, 2, 1>>, <<11499, 11501, 2, 1>>,
     <<11506, 11506, 1, 1>>, <<42560, 42604, 2, 1>>,
     <<42624, 42650, 2, 1>>, <<42786, 42798, 2, 1>>,
     <<42802, 42862, 2, 1>>, <<42873, 42875, 2, 1>>,
     <<42877, 42877, 1, -35332>>, <<42878, 42886, 2, 1>>,
     <<42891, 42891, 1, 1>>, <<42893, 42893, 1, -42280>>,
     <<42896, 42898, 2, 1>>, <<42902, 42920, 2, 1>>,
     <<42922, 42922, 1, -42308>>, <<42923, 42923, 1, -42319>>,
     <<42924, 42924, 1, -42315>>, <<42925, 42925, 1, -42305>>,
     <<42926, 42926, 1, -42308>>, <<42928, 42928, 1, -42258>>,
     <<42929, 42929, 1, -42282>>, <<42930, 42930, 1, -42261>>,
     <<42931, 42931, 1, 928>>, <<42932, 42946, 2, 1>>,
     <<42948, 42948, 1, -48>>, <<42949, 42949, 1, -42307>>,
     <<42950, 42950, 1, -35384>>, <<42951, 42953, 2, 1>>,
     <<42960, 42960, 1, 1>>, <<42966, 42968, 2, 1>>,
     <<42997, 42997, 1, 1>>, <<65313, 65338, 1, 32>>,
     <<66560, 66599, 1, 40>>, <<66736, 66771, 1, 40>>,
     <<66928, 66938, 1, 39>>, <<66940, 66954, 1, 39>>,
     <<66956, 66962, 1, 39>>, <<66964, 66965, 1, 39>>,
     <<68736, 68786, 1, 64>>, <<71840, 71871, 1, 32>>,
     <<93760, 93791, 1, 32>>, <<125184, 125217, 1, 34>>}

Sigma == 931             \* GREEK CAPITAL LETTER SIGMA
FinalSmallSigma == 962   \* GREEK SMALL LETTER FINAL SIGMA
DottedI == 304           \* LATIN CAPITAL LETTER I WITH DOT ABOVE
DotAbove == 775          \* COMBINING DOT ABOVE

HasLowerCase(c, r) == r[1] <= c /\ c <= r[2] /\ (c - r[1]) % r[3] = 0

LowerChar(c) ==
    IF \E r \in LowerCase : HasLowerCase(c, r)
    THEN c + (CHOOSE r \in LowerCase : HasLowerCase(c, r))[4]
    ELSE c

(* A capital sigma ends a word: the nearest character before it that is    *)
(* not Case_Ignorable is cased, and the nearest such character after it,   *)
(* if there is one, is not.                                                *)
IsFinalSigma(s, i) ==
    LET before == {j \in 1..(i - 1) : ~InRanges(s[j], CaseIgnorable)}
        after == {j \in (i + 1)..Len(s) : ~InRanges(s[j], CaseIgnorable)}
    IN  /\ before # {}
        /\ InRanges(s[SetMax(before)], Cased)
        /\ after = {} \/ ~InRanges(s[SetMin(after)], Cased)

(* A title as it is written. *)
AsWritten(title) == title

(* str.lower(): character by character, but for the capital sigma, whose   *)
(* lower case depends on its place, and the dotted capital I, whose lower  *)
(* case is two characters.                                                 *)
LowerAt(title, i) ==
    IF title[i] = Sigma /\ IsFinalSigma(title, i) THEN <<FinalSmallSigma>>
    ELSE IF title[i] = DottedI THEN <<Ord("i"), DotAbove>>
    ELSE <<LowerChar(title[i])>>

RECURSIVE LowerUpTo(_, _)
LowerUpTo(title, n) ==
    IF n = 0 THEN <<>> ELSE LowerUpTo(title, n - 1) \o LowerAt(title, n)

Lower(title) == LowerUpTo(title, Len(title))

(* \w of a str pattern: str.isalnum() or the underscore.                   *)
IsWordChar(c) == InRanges(c, Alphanumeric) \/ c = Underscore

(* re.sub(r'[^\w\s#]', ' ', title.lower()) *)
Cleaned(title) ==
    LET lowered == Lower(title)
    IN  [i \in 1..Len(lowered) |->
            IF IsWordChar(lowered[i]) \/ lowered[i] \in Whitespace \cup {Hash}
            THEN lowered[i] ELSE Space]

RECURSIVE Split(_)
Split(s) ==
    IF s = <<>> THEN <<>>
    ELSE IF Last(s) \in Whitespace THEN Split(Front(s))
    ELSE IF Len(s) = 1 \/ s[Len(s) - 1] \in Whitespace
    THEN Append(Split(Front(s)), <<Last(s)>>)
    ELSE LET words == Split(Front(s))
         IN  Append(Front(words), Append(Last(words), Last(s)))

RECURSIVE LStripHash(_)
LStripHash(word) ==
    IF word # <<>> /\ Head(word) = Hash THEN LStripHash(Tail(word)) ELSE word

(* The stopwords of PostViewSet.keyword_frequency and those of             *)
(* AnalyticsViewSet.keyword_frequency.                                     *)
AnalyticsStopwords ==
    {Text(w) : w \in
        {<<"t", "h", "e">>, <<"a", "n", "d">>, <<"f", "o", "r">>, <<"w", "i", "t", "h">>,
         <<"t", "h", "i", "s">>, <<"t", "h", "a", "t">>, <<"f", "r", "o", "m">>,
         <<"w", "a", "s">>, <<"a", "r", "e">>, <<"b", "e", "e", "n">>,
         <<"h", "a", "v", "e">>, <<"h", "a", "s">>, <<"h", "a", "d">>,
         <<"b", "u", "t">>, <<"n", "o", "t">>}}

Stopwords ==
    AnalyticsStopwords \cup {Text(<<"j", "u", "s", "t">>), Text(<<"y", "o", "u", "r">>)}

(* A word that is long enough, stopword or not. *)
LongEnough(word, min_length, stopwords) == Len(word) >= min_length

(* len(word) >= min_length and word not in stopwords *)
Qualifies(word, min_length, stopwords) ==
    Len(word) >= min_length /\ word \notin stopwords

(* The words list after the loop over the titles. *)
RECURSIVE KeywordsOf(_, _, _)
KeywordsOf(titles, min_length, stopwords) ==
    IF titles = <<>> THEN <<>>
    ELSE LET title_words == Split(Cleaned(Last(titles)))
             stripped == [i \in 1..Len(title_words) |-> LStripHash(title_words[i])]
         IN  KeywordsOf(Front(titles), min_length, stopwords)
             \o SelectSeq(stripped, LAMBDA w : Qualifies(w, min_length, stopwords))

(* Post.objects.values_list('title', flat=True), in the default order of   *)
(* the model: date descending.                                             *)
Titles(T, order) ==
    LET rows == SortBy(Rows(T), LAMBDA a, b :
                          IF a.date # b.date THEN a.date > b.date
                          ELSE Position(order, a) < Position(order, b))
    IN  [i \in 1..Len(rows) |-> rows[i].title]

(* Counter(words).most_common(limit): by count, words of one count in the  *)
(* order of their first occurrence.                                        *)
Occurrences(words, w) == Cardinality({i \in 1..Len(words) : words[i] = w})

FirstOccurrence(words, w) == CHOOSE i \in 1..Len(words) :
                                 words[i] = w /\ \A j \in 1..(i - 1) : words[j] # w

MostCommon(words, limit) ==
    Take(SortBy(Range(words), LAMBDA a, b :
                    IF Occurrences(words, a) # Occurrences(words, b)
                    THEN Occurrences(words, a) > Occurrences(words, b)
                    ELSE FirstOccurrence(words, a) < FirstOccurrence(words, b)),
         limit)

(* The sign of ((count / total_words) * 100 as Python computes it) minus   *)
(* the exact percentage, for count, total_words > 0.  The division gives   *)
(* the double of mantissa m; 100 * m has 59 or 60 bits, of which the       *)
(* multiplication rounds the lowest 6 or 7 away, to the even neighbour     *)
(* when they are exactly half.                                             *)
ProductError(count, total_words) ==
    LET e == Exponent(count, total_words)
        k == MantissaBits - e
        d == DivisionError(count, total_words)
        m_low == ((TimesPow2Mod(count, k, 256 * total_words) + d)
                      % (256 * total_words)) \div total_words
        lhs == IF e >= -5 THEN 25 * count ELSE 25 * count * 2^(-5 - e)
        rhs == IF e >= -5 THEN total_words * 2^(5 + e) ELSE total_words
        bits == IF lhs < rhs \/ (lhs = rhs /\ d < 0) THEN 6 ELSE 7
        low == (100 * m_low) % 2^bits
        odd == ((100 * m_low) \div 2^bits) % 2 = 1
        rounded == IF 2 * low < 2^bits THEN 0 - low
                   ELSE IF 2 * low > 2^bits THEN 2^bits - low
                   ELSE IF odd THEN low ELSE 0 - low
    IN  100 * d + rounded * total_words

(* round((count / total_words) * 100, 2), in hundredths of a percent, for  *)
(* 0 <= count and 0 < total_words.                                         *)
Percentage(count, total_words) ==
    LET q == (10000 * count) \div total_words
        rem == (10000 * count) % total_words
    IN  IF 2 * rem < total_words THEN q
        ELSE IF 2 * rem > total_words THEN q + 1
        ELSE IF ProductError(count, total_words) > 0 THEN q + 1
        ELSE IF ProductError(count, total_words) < 0 THEN q
        ELSE IF q % 2 = 0 THEN q ELSE q + 1

(* keyword_frequency; guarded is PostViewSet's `if total_words > 0`.       *)
KeywordFrequency(st, limit, min_length, stopwords, guarded, order) ==
    LET words == KeywordsOf(Titles(st.posts, order), min_length, stopwords)
        top_words == MostCommon(words, limit)
        total_words == Len(words)
    IN  [view |-> "keyword_frequency",
         request |-> [limit |-> limit, min_length |-> min_length,
                      stopwords |-> stopwords],
         total_words |-> total_words,
         unique_words |-> Cardinality(Range(words)),
         keywords |-> [i \in 1..Len(top_words) |->
                          [word |-> top_words[i],
                           count |-> Occurrences(words, top_words[i]),
                           percentage |->
                               IF guarded /\ total_words <= 0 THEN 0
                               ELSE Percentage(Occurrences(words, top_words[i]),
                                               total_words)]]]


-----------------------------------------------------------------------------
(* serializers.py and views.py: the import of posts through the API.  The  *)
(* requests of the model have the shape of the JSON schema.                *)

(* DateTimeField.to_internal_value on <<year, month, day>>: the day it     *)
(* names, when datetime has such a day (years 1 to 9999).                  *)
ParseDate(text) ==
    IF /\ Len(text) = 3
       /\ text[1] \in 1..9999
       /\ text[2] \in 1..Len(MonthLengths)
       /\ text[3] \in 1..DaysInMonth(text[1], text[2])
    THEN Some(DayNumber(text[1], text[2], text[3]))
    ELSE None

(* CharField on a text: the text is stripped; a blank one is refused       *)
(* unless allow_blank, and so is one that is longer than max_length or     *)
(* that holds U+0000 or a surrogate.                                       *)
CharFieldValid(text, max_length, allow_blank) ==
    LET value == Strip(text)
    IN  /\ value = <<>> => allow_blank
        /\ Len(value) <= max_length
        /\ \A i \in 1..Len(value) : value[i] # 0 /\ value[i] \notin 55296..57343

(* Django's URLValidator, which URLField adds to the validators of         *)
(* CharField, for a link whose part between :// and the path is written in *)
(* ASCII: the second attempt of the validator, with that part in punycode, *)
(* then meets the link of the first.                                       *)
Colon == Ord(":")
At == Ord("@")
Dot == Ord(".")
Question == Ord("?")
OpenBracket == Ord("[")
CloseBracket == Ord("]")

AsciiDigits == Ord("0")..Ord("9")
AsciiLetters == (Ord("a")..Ord("z")) \cup (Ord("A")..Ord("Z"))
HexDigits == AsciiDigits \cup (Ord("a")..Ord("f")) \cup (Ord("A")..Ord("F"))

(* The characters beyond ASCII that [a-z] matches when case is ignored:    *)
(* the dotted capital I, the dotless i, the long s and the Kelvin sign.    *)
FoldedLetters == {304, 305, 383, 8490}

(* A letter or a digit of ASCII or a character of ul, the range U+00A1 to  *)
(* U+FFFF.                                                                 *)
HostCharacter(c) == c \in AsciiLetters \/ c \in AsciiDigits \/ c \in 161..65535

AsciiLower(t) ==
    [i \in 1..Len(t) |-> IF t[i] \in Ord("A")..Ord("Z") THEN t[i] + 32 ELSE t[i]]

(* The first place from `from` on where t has a character of stops, or the *)
(* place after the end of t.                                               *)
RECURSIVE Find(_, _, _)
Find(t, from, stops) ==
    IF from > Len(t) \/ t[from] \in stops THEN from ELSE Find(t, from + 1, stops)

(* str.split(sep) for a separator of one character. *)
RECURSIVE Fields(_, _)
Fields(t, sep) ==
    LET at == Find(t, 1, {sep})
    IN  IF at > Len(t) THEN <<t>>
        ELSE <<SubSeq(t, 1, at - 1)>> \o Fields(SubSeq(t, at + 1, Len(t)), sep)

(* 0 to 255 in decimal digits, without a leading zero: an octet of ipv4_re *)
(* and of ipaddress.IPv4Address.                                           *)
IsOctet(t) ==
    /\ Len(t) \in 1..3
    /\ \A i \in 1..Len(t) : t[i] \in AsciiDigits
    /\ Len(t) > 1 => t[1] # Ord("0")
    /\ IntOf(t) <= 255

IsIpv4(t) ==
    LET octets == Fields(t, Dot)
    IN  Len(octets) = 4 /\ \A i \in 1..4 : IsOctet(octets[i])

(* _parse_hextet *)
IsHextet(t) == Len(t) \in 1..4 /\ \A i \in 1..Len(t) : t[i] \in HexDigits

(* ipaddress.IPv6Address accepts the text: three to nine parts between     *)
(* colons, the last of which may be an IPv4 address that stands for two;   *)
(* at most one empty part inside, which stands for the parts left out; an  *)
(* empty first or last part only next to it; eight parts in all.           *)
IsIpv6(t) ==
    LET split == Fields(t, Colon)
        ipv4 == Dot \in Range(Last(split))
        parts == IF ipv4 THEN Front(split) \o <<<<Ord("0")>>, <<Ord("0")>>>> ELSE split
        n == Len(parts)
        inside == {i \in 2..(n - 1) : parts[i] = <<>>}
        skip == CHOOSE i \in inside : TRUE
        parts_hi == IF parts[1] = <<>> THEN skip - 2 ELSE skip - 1
        parts_lo == IF parts[n] = <<>> THEN n - skip - 1 ELSE n - skip
    IN  /\ Len(split) >= 3
        /\ ipv4 => IsIpv4(Last(split))
        /\ n <= 9
        /\ Cardinality(inside) <= 1
        /\ IF inside # {}
           THEN /\ parts[1] = <<>> => parts_hi = 0
                /\ parts[n] = <<>> => parts_lo = 0
                /\ parts_hi + parts_lo <= 7
                /\ \A i \in (1..parts_hi) \cup ((n - parts_lo + 1)..n) : IsHextet(parts[i])
           ELSE /\ n = 8
                /\ \A i \in 1..n : IsHextet(parts[i])

(* hostname_re, a label of domain_re and the label of tld_re.              *)
IsHostLabel(t) ==
    /\ Len(t) \in 1..63
    /\ \A i \in 1..Len(t) : HostCharacter(t[i]) \/ t[i] = Minus
    /\ t[1] # Minus /\ Last(t) # Minus

IsDomainLabel(t) ==
    /\ Len(t) \in 1..63
    /\ \A i \in 1..Len(t) : HostCharacter(t[i]) \/ t[i] = Minus
    /\ t[1] # Minus /\ Last(t) # Minus

IsTopLevelLabel(t) ==
    /\ Len(t) \in 2..63
    /\ t[1] # Minus /\ Last(t) # Minus
    /\ \/ \A i \in 1..Len(t) :
              (HostCharacter(t[i]) /\ t[i] \notin AsciiDigits) \/ t[i] = Minus
       \/ /\ Len(t) >= 5
          /\ AsciiLower(SubSeq(t, 1, 4)) = Text(<<"x", "n", "-", "-">>)
          /\ \A i \in 5..Len(t) : t[i] \in AsciiLetters \cup AsciiDigits \cup FoldedLetters

(* host_re: labels between dots, of which the last is a top-level label    *)
(* that a dot may follow, or the word localhost.                           *)
IsHostName(t) ==
    LET labels == Fields(IF t # <<>> /\ Last(t) = Dot THEN Front(t) ELSE t, Dot)
        localhost == Text(<<"l", "o", "c", "a", "l", "h", "o", "s", "t">>)
    IN  \/ /\ Len(labels) >= 2
           /\ IsHostLabel(labels[1])
           /\ \A i \in 2..(Len(labels) - 1) : IsDomainLabel(labels[i])
           /\ IsTopLevelLabel(Last(labels))
        \/ /\ Len(t) = Len(localhost)
           /\ \A i \in 1..Len(t) :
                  \/ t[i] \in {localhost[i], localhost[i] - 32}
                  \/ localhost[i] = Ord("s") /\ t[i] = 383

(* The host of the regular expression: ipv4_re, ipv6_re or host_re.        *)
IsHost(t) ==
    \/ IsIpv4(t)
    \/ /\ Len(t) >= 3
       /\ t[1] = OpenBracket /\ Last(t) = CloseBracket
       /\ \A i \in 2..(Len(t) - 1) : t[i] \in HexDigits \cup {Colon, Dot}
    \/ IsHostName(t)

(* user:pass of the regular expression: no whitespace, no @ and no slash,  *)
(* at most one colon, which does not come first.                           *)
IsUserInfo(t) ==
    /\ t # <<>>
    /\ t[1] # Colon
    /\ \A i \in 1..Len(t) : t[i] \notin Whitespace \cup {At, Slash}
    /\ Cardinality({i \in 1..Len(t) : t[i] = Colon}) <= 1

(* What follows :// matches the rest of the regular expression when its    *)
(* first `user` characters are the user:pass with its @: the host, a port  *)
(* of one to five digits and a path, query or fragment without whitespace. *)
MatchesFrom(rest, user) ==
    LET host_end ==
            IF user < Len(rest) /\ rest[user + 1] = OpenBracket
            THEN Find(rest, user + 1, {CloseBracket})
            ELSE Find(rest, user + 1, {Colon, Slash, Question, Hash}) - 1
        port_end ==
            IF host_end < Len(rest) /\ rest[host_end + 1] = Colon
            THEN Find(rest, host_end + 2, {Slash, Question, Hash}) - 1
            ELSE host_end
    IN  /\ host_end <= Len(rest)
        /\ IsHost(SubSeq(rest, user + 1, host_end))
        /\ host_end < Len(rest) => rest[host_end + 1] \in {Colon, Slash, Question, Hash}
        /\ port_end > host_end =>
              /\ port_end - host_end - 1 \in 1..5
              /\ \A i \in (host_end + 2)..port_end : rest[i] \in AsciiDigits
        /\ \A i \in (port_end + 1)..Len(rest) : rest[i] \notin Whitespace

MatchesRegex(rest) ==
    LET at == Find(rest, 1, {At})
    IN  \/ MatchesFrom(rest, 0)
        \/ /\ at <= Len(rest)
           /\ IsUserInfo(SubSeq(rest, 1, at - 1))
           /\ MatchesFrom(rest, at)

(* urlsplit: the netloc is what stands between :// and the first slash,    *)
(* question mark or hash.  urlsplit raises ValueError for a netloc with    *)
(* one bracket and not the other, and for one whose brackets hold neither  *)
(* an IPv6 address nor an address of a later version (v, hexadecimal       *)
(* digits, a dot and at least one character).                              *)
Netloc(rest) == SubSeq(rest, 1, Find(rest, 1, {Slash, Question, Hash}) - 1)

IsIpvFuture(t) ==
    LET dot == Find(t, 1, {Dot})
    IN  /\ dot \in 3..(Len(t) - 1)
        /\ t[1] = Ord("v")
        /\ \A i \in 2..(dot - 1) : t[i] \in HexDigits

UrlsplitRaises(rest) ==
    LET netloc == Netloc(rest)
        open == Find(netloc, 1, {OpenBracket})
        bracketed == SubSeq(netloc, open + 1, Find(netloc, open + 1, {CloseBracket}) - 1)
    IN  \/ (OpenBracket \in Range(netloc)) # (CloseBracket \in Range(netloc))
        \/ /\ OpenBracket \in Range(netloc)
           /\ IF bracketed # <<>> /\ bracketed[1] = Ord("v")
              THEN ~IsIpvFuture(bracketed) ELSE ~IsIpv6(bracketed)

(* A netloc that begins with a bracket and ends with a bracket or with a   *)
(* bracket and a port holds, from its first bracket to its last, an IPv6   *)
(* address.                                                                *)
BracketedHostRefused(netloc) ==
    LET closes == {i \in 1..Len(netloc) : netloc[i] = CloseBracket}
        close == SetMax(closes)
    IN  /\ netloc # <<>> /\ netloc[1] = OpenBracket
        /\ closes # {}
        /\ close > 2
        /\ \/ close = Len(netloc)
           \/ /\ netloc[close + 1] = Colon
              /\ Len(netloc) - close - 1 \in 1..5
              /\ \A i \in (close + 2)..Len(netloc) : netloc[i] \in AsciiDigits
        /\ ~IsIpv6(SubSeq(netloc, 2, close - 1))

(* SplitResult.hostname: what follows the last @ of the netloc, between    *)
(* its brackets if it has one and up to its first colon otherwise.         *)
Hostname(netloc) ==
    LET ats == {i \in 1..Len(netloc) : netloc[i] = At}
        hostinfo == IF ats = {} THEN netloc
                    ELSE SubSeq(netloc, SetMax(ats) + 1, Len(netloc))
        open == Find(hostinfo, 1, {OpenBracket})
    IN  IF open <= Len(hostinfo)
        THEN SubSeq(hostinfo, open + 1, Find(hostinfo, open + 1, {CloseBracket}) - 1)
        ELSE SubSeq(hostinfo, 1, Find(hostinfo, 1, {Colon}) - 1)

Schemes == {Text(<<"h", "t", "t", "p">>), Text(<<"h", "t", "t", "p", "s">>),
            Text(<<"f", "t", "p">>), Text(<<"f", "t", "p", "s">>)}

(* The places where value has ://. *)
SchemeEnds(value) ==
    {i \in 1..(Len(value) - 2) :
        value[i] = Colon /\ value[i + 1] = Slash /\ value[i + 2] = Slash}

IsUrl(value) ==
    /\ \A i \in 1..Len(value) : value[i] \notin {9, 10, 13}
    /\ SchemeEnds(value) # {}
    /\ LET colon == SetMin(SchemeEnds(value))
           scheme == SubSeq(value, 1, colon - 1)
           rest == SubSeq(value, colon + 3, Len(value))
           hostname == Hostname(Netloc(rest))
       IN  /\ AsciiLower(scheme) \in Schemes
           /\ ~UrlsplitRaises(rest)
           /\ MatchesRegex(rest)
           /\ ~BracketedHostRefused(Netloc(rest))
           /\ hostname # <<>>
           /\ Len(hostname) <= 253

(* URLField(max_length=500) *)
UrlFieldValid(text) ==
    LET value == Strip(text)
    IN  CharFieldValid(text, 500, FALSE) /\ IsUrl(value)

PostImportRequired == {"id", "title", "likes", "date", "cover_url", "video_link"}

(* The fields of PostImportSerializer; a key of the request that names     *)
(* none of them is left aside.                                             *)
PostImportFields ==
    PostImportRequired \cup {"views", "comments", "shares", "duration", "hashtags",
                             "is_private", "is_pinned"}

(* The value of an optional field that allows null is an optional value;   *)
(* it is there when the key is there and holds no null.                    *)
Given(d, k) == k \in DOMAIN d /\ d[k] # None

(* The fields of PostImportSerializer apart from the date: the required    *)
(* ones, the lengths of id and title, the two links, min_value and         *)
(* max_value of the numbers and the texts of hashtags.                     *)
PostFieldsValid(d) ==
    /\ PostImportRequired \subseteq DOMAIN d
    /\ CharFieldValid(d["id"], 50, FALSE)
    /\ CharFieldValid(d["title"], 2200, TRUE)
    /\ d["likes"] >= 0
    /\ UrlFieldValid(d["cover_url"])
    /\ UrlFieldValid(d["video_link"])
    /\ \A k \in {"views", "comments", "shares"} : Given(d, k) => Value(d[k]) >= 0
    /\ Given(d, "duration") => Value(d["duration"]) \in 1..600
    /\ Given(d, "hashtags") =>
          \A i \in 1..Len(Value(d["hashtags"])) :
              CharFieldValid(Value(d["hashtags"])[i], 100, FALSE)

(* PostImportSerializer.is_valid on a post of the request, the clock       *)
(* reading now in validate_date.                                           *)
PostImportValid(d, now) ==
    /\ PostFieldsValid(d)
    /\ ParseDate(d["date"]) # None
    /\ Value(ParseDate(d["date"])) <= now

(* validated_data of a valid post: the fields of the serializer, the texts *)
(* stripped, the date parsed, the two flags False when they are not given. *)
PostImportValidated(d) ==
    LET flags == [is_private |-> FALSE, is_pinned |-> FALSE]
    IN  [k \in (DOMAIN d \cap PostImportFields) \cup DOMAIN flags |->
            IF k \notin DOMAIN d THEN flags[k]
            ELSE IF k \in {"id", "title", "cover_url", "video_link"} THEN Strip(d[k])
            ELSE IF k = "date" THEN Value(ParseDate(d[k]))
            ELSE IF k = "hashtags" /\ d[k] # None
            THEN Some([i \in 1..Len(Value(d[k])) |-> Strip(Value(d[k])[i])])
            ELSE d[k]]

(* The same serializer on a post that was validated before: a datetime is  *)
(* taken as it is.                                                         *)
ValidatedPostValid(v, now) == PostFieldsValid(v) /\ v["date"] <= now

(* The row PostImportSerializer.create writes: validated_data.get for      *)
(* every column, with [] for hashtags that are not given.                  *)
ApiPostRow(v) ==
    [post_id |-> Strip(v["id"]), title |-> Strip(v["title"]), likes |-> v["likes"],
     date |-> v["date"],
     cover_url |-> Strip(v["cover_url"]), video_link |-> Strip(v["video_link"]),
     views |-> Get(v, "views", None),
     comments |-> Get(v, "comments", None),
     shares |-> Get(v, "shares", None),
     duration |-> Get(v, "duration", None),
     hashtags |-> Get(v, "hashtags", Some(<<>>)),
     is_private |-> Get(v, "is_private", FALSE),
     is_pinned |-> Get(v, "is_pinned", FALSE)]

(* Post.objects.update_or_create(post_id=post_id, defaults={...}) *)
PostUpdateOrCreate(T, row) ==
    LET others == {r \in Rows(T) : r.post_id # row.post_id}
    IN  Insert([r \in others |-> CopiesIn(r, T)], row)

(* Post.objects.filter(post_id=post.post_id).count() *)
PostIdCount(T, id) ==
    BagCardinality([r \in {x \in Rows(T) : x.post_id = id} |-> CopiesIn(r, T)])

MetadataRequired == {"export_date", "version", "total_posts"}

(* TikTokJSONImportSerializer.is_valid: validate_metadata and every post;  *)
(* nows are the readings of the clock, one for each post.                  *)
ImportRequestValid(request, nows) ==
    /\ MetadataRequired \subseteq DOMAIN request.metadata
    /\ request.metadata["total_posts"] = Len(request.posts)
    /\ \A i \in 1..Len(request.posts) : PostImportValid(request.posts[i], nows[i])

HttpOk == 200
HttpMultiStatus == 207
HttpBadRequest == 400

(* The loop of TikTokJSONImportSerializer.create commits every post by     *)
(* itself and then counts the rows of its post_id in a query of its own.   *)
(* result holds posts_data, the number of posts the loop is done with,     *)
(* whether the next one is saved and waits for its count, the two counters *)
(* and the errors.  The numbers of the model fit their columns, so that no *)
(* save raises.                                                            *)
ImportJsonBegins(request) ==
    [request |-> request,
     posts_data |-> [i \in 1..Len(request.posts) |-> PostImportValidated(request.posts[i])],
     done |-> 0, saved |-> FALSE,
     created_count |-> 0, updated_count |-> 0, errors |-> <<>>]

(* serializer.is_valid() and serializer.save() of one pass. *)
ImportJsonSaves(T, result, now) ==
    LET post_data == result.posts_data[result.done + 1]
    IN  IF ~ValidatedPostValid(post_data, now)
        THEN [table |-> T,
              result |-> [result EXCEPT !.done = @ + 1,
                                        !.errors = Append(@, post_data["id"])]]
        ELSE [table |-> PostUpdateOrCreate(T, ApiPostRow(post_data)),
              result |-> [result EXCEPT !.saved = TRUE]]

(* "if Post.objects.filter(post_id=post.post_id).count() == 1" of the same *)
(* pass.                                                                   *)
ImportJsonCounts(T, result) ==
    LET post_data == result.posts_data[result.done + 1]
    IN  IF PostIdCount(T, ApiPostRow(post_data).post_id) = 1
        THEN [result EXCEPT !.done = @ + 1, !.saved = FALSE, !.created_count = @ + 1]
        ELSE [result EXCEPT !.done = @ + 1, !.saved = FALSE, !.updated_count = @ + 1]

(* PostViewSet.import_json: the response to a request the serializer       *)
(* refuses, and the response when the loop is over.                        *)
ImportJsonRefused(request) ==
    [view |-> "import_json", request |-> request, status |-> HttpBadRequest]

ImportJson(result) ==
    [view |-> "import_json", request |-> result.request,
     status |-> IF Len(result.errors) = 0 THEN HttpOk ELSE HttpMultiStatus,
     statistics |->
         [total_in_file |-> result.request.metadata["total_posts"],
          imported |-> result.created_count + result.updated_count,
          created |-> result.created_count,
          updated |-> result.updated_count,
          failed |-> Len(result.errors)]]


-----------------------------------------------------------------------------
(* The post API: requests to the analytics views and to the import, on     *)
(* stores of up to three posts dated from the end of January to the        *)
(* beginning of March.                                                     *)

MaxRequest == 2

P3 == [i \in 1..IdLength |-> Ord("9")]

Fyp == Text(<<"f", "y", "p">>)
TitleViral == Fyp \o Text(<<" ", "v", "i", "r", "a", "l">>)
TitleTrending == Fyp \o Text(<<" ", "t", "r", "e", "n", "d", "i", "n", "g">>)
TitleHash ==
    Text(<<"#", "F", "Y", "P", ",", " ", "t", "h", "e", " ", "#", "a", "#", "b", "!">>)
TitleJust == Text(<<"j", "u", "s", "t", " ", "d", "o", " ", "i", "t">>)

CapitalE == 201   \* LATIN CAPITAL LETTER E WITH ACUTE
SmallE == 233     \* LATIN SMALL LETTER E WITH ACUTE
NoBreakSpace == 160
Fire == 128293    \* FIRE, an emoji

(* 'Café ÉCLAIR', the emoji, '#café', a no-break space and 'ÉCLAIR!' *)
TitleCafe ==
    Text(<<"C", "a", "f">>) \o <<SmallE, Space, CapitalE>>
    \o Text(<<"C", "L", "A", "I", "R">>) \o <<Fire, Hash>>
    \o Text(<<"c", "a", "f">>) \o <<SmallE, NoBreakSpace, CapitalE>>
    \o Text(<<"C", "L", "A", "I", "R", "!">>)

Jan31 == DaysBefore(1) + 31
Feb01 == DaysBefore(2) + 1
Feb28 == DaysBefore(2) + 28
Mar01 == DaysBefore(3) + 1
Mar02 == DaysBefore(3) + 2

(* Rows of the Post table: for every id two rows it may hold. *)
ApiRows ==
    {PostRow(P1, TitleViral, 5, Jan31, Cover, Url(P1), Some(10)),
     PostRow(P1, TitleJust, 0, Feb28, Cover, Url(P1), Some(0)),
     [PostRow(P2, TitleTrending, 3, Feb01, Cover, Url(P2), None)
         EXCEPT !.comments = Some(10)],
     PostRow(P2, <<>>, 7, Mar02, Cover, Url(P2), None),
     PostRow(P3, TitleHash, 3, Mar01, Cover, Url(P3), Some(4)),
     [PostRow(P3, TitleCafe, 4, Feb01, Cover, Url(P3), Some(4))
         EXCEPT !.shares = Some(2)]}

ApiStores ==
    {S \in SUBSET ApiRows : \A a, b \in S : a.post_id = b.post_id => a = b}

(* The posts of a request.  An optional number is given, null or left out. *)
ReqUpdate == [id |-> P1, title |-> <<160>> \o TitleTrending \o <<11>>, likes |-> 8,
              date |-> <<Year, 1, 31>>, cover_url |-> Cover, video_link |-> Url(P1),
              views |-> Some(12)]
ReqNew == [id |-> P3, title |-> TitleJust, likes |-> 4, date |-> <<Year, 3, 2>>,
           cover_url |-> Cover, video_link |-> Url(P3)]
ReqSecond == [ReqNew EXCEPT !.id = P2, !.title = <<>>, !.likes = 6]
ReqLate == [ReqNew EXCEPT !.date = <<Year, 3, 20>>]

(* sample_post_data of the tests, with keys that the serializer leaves     *)
(* aside.                                                                  *)
SampleId == [i \in 1..IdLength |-> Ord("1") + ((i - 1) % 9)]
ReqSample ==
    [id |-> SampleId, title |-> TitleHash, likes |-> 1000, date |-> <<2024, 1, 15>>,
     cover_url |-> Text(<<"h", "t", "t", "p", "s", ":", "/", "/", "e", "x", "a", "m", "p",
                          "l", "e", ".", "c", "o", "m", "/", "c", "o", "v", "e", "r",
                          ".", "j", "p", "g">>),
     video_link |-> Text(<<"h", "t", "t", "p", "s", ":", "/", "/", "t", "i", "k", "t",
                           "o", "k", ".", "c", "o", "m", "/", "@", "u", "s", "e", "r",
                           "/", "v", "i", "d", "e", "o", "/">>) \o SampleId,
     views |-> Some(50000), comments |-> Some(100), shares |-> Some(50),
     bookmarks |-> 25, duration |-> Some(30),
     hashtags |-> Some(<<Fyp, Text(<<"v", "i", "r", "a", "l">>),
                         Text(<<"t", "r", "e", "n", "d", "i", "n", "g">>)>>),
     music |-> "Original Sound - Username", location |-> "New York, USA"]
ReqLeapDay == [ReqNew EXCEPT !.date = <<2024, 2, 29>>]
ReqNulls == ReqNew @@ [views |-> None, duration |-> None, hashtags |-> None]

ReqNegative == [ReqNew EXCEPT !.likes = -5]
ReqFuture == [ReqNew EXCEPT !.date = <<Year, 12, 31>>]
ReqNextYear == [ReqNew EXCEPT !.date = <<Year + 1, 1, 1>>]
ReqBadDate == [ReqNew EXCEPT !.date = <<Year, 2, 30>>]
ReqNotDate == [ReqNew EXCEPT !.date = <<>>]
ReqNoLink == [id |-> P3, title |-> TitleJust, likes |-> 4, date |-> <<Year, 3, 2>>,
              cover_url |-> Cover]
ReqBlankCover == [ReqNew EXCEPT !.cover_url = <<>>]
ReqNotUrl ==
    [ReqNew EXCEPT !.cover_url = Text(<<"n", "o", "t", "-", "a", "-", "v", "a", "l", "i",
                                        "d", "-", "u", "r", "l">>)]
ReqNoDuration == ReqNew @@ [duration |-> Some(0)]
ReqLongDuration == ReqNew @@ [duration |-> Some(601)]
ReqNegativeComments == ReqNew @@ [comments |-> Some(-1)]
ReqNegativeShares == ReqNew @@ [shares |-> Some(-1)]
ReqBlankId == [ReqNew EXCEPT !.id = <<Space>>]
ReqLongId == [ReqNew EXCEPT !.id = [i \in 1..51 |-> Ord("9")]]
ReqLongTitle == [ReqNew EXCEPT !.title = [i \in 1..2201 |-> Ord("a")]]
ReqLongTag == ReqNew @@ [hashtags |-> Some(<<[i \in 1..101 |-> Ord("a")]>>)]

(* Posts that come alone or with another, and posts that come alone.       *)
RequestPosts == {ReqUpdate, ReqNew, ReqSecond}

SinglePosts ==
    {ReqLate, ReqSample, ReqLeapDay, ReqNulls, ReqNegative, ReqFuture, ReqNextYear, ReqBadDate,
     ReqNotDate, ReqNoLink, ReqBlankCover, ReqNotUrl, ReqNoDuration, ReqLongDuration,
     ReqNegativeComments, ReqNegativeShares, ReqBlankId, ReqLongId, ReqLongTitle,
     ReqLongTag}

ImportRequest(ps, n) ==
    [metadata |-> [export_date |-> <<Year, 3, 3>>, version |-> "1.0.0", total_posts |-> n],
     posts |-> ps]

(* Requests whose total_posts is right, one whose total_posts is wrong and *)
(* one without total_posts.                                                *)
ImportRequests ==
    {ImportRequest(ps, Len(ps)) : ps \in SeqsUpTo(RequestPosts, MaxRequest)}
    \cup {ImportRequest(<<p>>, 1) : p \in SinglePosts}
    \cup {ImportRequest(<<ReqNew>>, 2),
          [metadata |-> [export_date |-> <<Year, 3, 3>>, version |-> "1.0.0"],
           posts |-> <<ReqNew>>]}

(* datetime.now() of a request: the third of March or the first of April.  *)
ApiNows == {DaysBefore(3) + 3, DaysBefore(4) + 1}

Groupings == {"day", "week", "month"}
TrendDays == {1, 30}
Windows == {"daily", "weekly", "monthly"}
Limits == {1, 5}
Metrics == {"likes", "views", "engagement"}
KeywordLimits == {1, 20}
MinLengths == {2, 3}

GetTrends ==
    /\ Idle /\ reader = NoReader
    /\ \E grouping \in Groupings, days \in TrendDays, now \in ApiNows :
           response' = PostViewSetTrends(Store, grouping, days, now)
    /\ UNCHANGED <<posts, followers, following, snapshots, pre, run, reader>>

GetAnalyticsTrends ==
    /\ Idle /\ reader = NoReader
    /\ \E grouping \in Groupings, days \in TrendDays, now \in ApiNows :
           response' = AnalyticsViewSetTrends(Store, grouping, days, now)
    /\ UNCHANGED <<posts, followers, following, snapshots, pre, run, reader>>

(* top_posts_by_time makes the query for the periods and then one query    *)
(* for each of them.  The request up to the first query, which answers at  *)
(* once when the table holds no post; nulls_first is where the database    *)
(* puts NULL in a descending order, which only the order by views shows.   *)
RequestTopPostsByTime(windows, limits, metrics) ==
    /\ Ready
    /\ \E window \in windows, limit \in limits, metric \in metrics :
        \E nulls_first \in IF metric = "views" THEN BOOLEAN ELSE {FALSE} :
           IF TopPeriods(posts, window) = <<>>
           THEN /\ response' = TopPostsByTime(window, limit, metric, <<>>)
                /\ UNCHANGED reader
           ELSE /\ reader' = [view |-> "top_posts_by_time", window |-> window,
                              limit |-> limit, metric |-> metric,
                              nulls_first |-> nulls_first,
                              periods |-> TopPeriods(posts, window),
                              data |-> <<>>]
                /\ UNCHANGED response
    /\ UNCHANGED <<posts, followers, following, snapshots, pre, run>>

GetTopPostsByTime == RequestTopPostsByTime(Windows, Limits, Metrics)

(* The query for the posts of the next period; after the last period the   *)
(* view answers.                                                           *)
ContinueTopPostsByTime ==
    /\ reader.view = "top_posts_by_time"
    /\ \E order \in RowOrders(posts) :
           LET period == reader.periods[Len(reader.data) + 1]
               data == Append(reader.data,
                              TopPostsOfPeriod(posts, period, reader.window, reader.limit,
                                               reader.metric, order, reader.nulls_first))
           IN  IF Len(data) < Len(reader.periods)
               THEN /\ reader' = [reader EXCEPT !.data = data]
                    /\ UNCHANGED response
               ELSE /\ response = NoResponse
                    /\ response' = TopPostsByTime(reader.window, reader.limit,
                                                  reader.metric, data)
                    /\ reader' = NoReader
    /\ UNCHANGED <<posts, followers, following, snapshots, pre, run>>

GetKeywordFrequency ==
    /\ Idle /\ reader = NoReader
    /\ \E limit \in KeywordLimits, min_length \in MinLengths, order \in RowOrders(posts) :
           response' = KeywordFrequency(Store, limit, min_length, Stopwords, TRUE, order)
    /\ UNCHANGED <<posts, followers, following, snapshots, pre, run, reader>>

GetAnalyticsKeywordFrequency ==
    /\ Idle /\ reader = NoReader
    /\ \E limit \in KeywordLimits, min_length \in MinLengths, order \in RowOrders(posts) :
           response' = KeywordFrequency(Store, limit, min_length, AnalyticsStopwords,
                                        FALSE, order)
    /\ UNCHANGED <<posts, followers, following, snapshots, pre, run, reader>>

(* POST /api/posts/import/: the request up to the end of is_valid, which   *)
(* reads the clock once for every post.  Arrivals holds every request with *)
(* what is_valid may say to it, for the readings of the clock.  A request  *)
(* that is refused is answered at once, and so is one without posts; of    *)
(* another the loop of create begins.                                      *)
Arrivals ==
    {[request |-> request, valid |-> ImportRequestValid(request, nows)] :
        request \in ImportRequests, nows \in [1..MaxRequest -> ApiNows]}

PostImportJson ==
    /\ Idle
    /\ \E arrival \in Arrivals :
           IF ~arrival.valid
           THEN /\ response' = ImportJsonRefused(arrival.request)
                /\ UNCHANGED run
           ELSE IF arrival.request.posts = <<>>
           THEN /\ response' = ImportJson(ImportJsonBegins(arrival.request))
                /\ UNCHANGED run
           ELSE /\ run' = [cmd |-> "import_json"] @@ ImportJsonBegins(arrival.request)
                /\ UNCHANGED response
    /\ pre' = Store
    /\ UNCHANGED <<posts, followers, following, snapshots, reader>>

(* The next statement of the loop that commits or queries: the save of a   *)
(* post, before which the clock is read again, or the count that follows   *)
(* it.  After the last post the view answers.                              *)
ContinueImportJson ==
    /\ run.cmd = "import_json"
    /\ \E next \in IF run.saved
                    THEN {[table |-> posts, result |-> ImportJsonCounts(posts, run)]}
                    ELSE {ImportJsonSaves(posts, run, now) : now \in ApiNows} :
           /\ posts' = next.table
           /\ IF next.result.done < Len(run.posts_data)
              THEN /\ run' = next.result
                   /\ UNCHANGED response
              ELSE /\ response = NoResponse
                   /\ response' = ImportJson(next.result)
                   /\ run' = NoRun
    /\ UNCHANGED <<followers, following, snapshots, pre, reader>>

InitPostApi ==
    /\ posts \in {SetToBag(S) : S \in ApiStores}
    /\ followers = EmptyBag
    /\ following = EmptyBag
    /\ snapshots = EmptyBag
    /\ pre = Store
    /\ run = NoRun
    /\ response = NoResponse
    /\ reader = NoReader

NextPostApi ==
    \/ GetTrends
    \/ GetAnalyticsTrends
    \/ GetTopPostsByTime
    \/ ContinueTopPostsByTime
    \/ GetKeywordFrequency
    \/ GetAnalyticsKeywordFrequency
    \/ Return

SpecPostApi == InitPostApi /\ [][NextPostApi]_vars

-----------------------------------------------------------------------------
(* The import of the post API on stores of posts of up to the first of     *)
(* February, and requests for the top posts of the days and of the months  *)
(* that are answered before it, after it and while it commits.             *)

ImportStores == {SetToBag(S) : S \in {T \in ApiStores : \A r \in T : r.date <= Feb01}}

ImportJsonOnce == posts \in ImportStores /\ PostImportJson

GetTopPostsMeanwhile == RequestTopPostsByTime({"daily", "monthly"}, {5}, {"likes"})

InitPostImport ==
    /\ posts \in ImportStores
    /\ followers = EmptyBag
    /\ following = EmptyBag
    /\ snapshots = EmptyBag
    /\ pre = Store
    /\ run = NoRun
    /\ response = NoResponse
    /\ reader = NoReader

NextPostImport ==
    \/ ImportJsonOnce
    \/ ContinueImportJson
    \/ GetTopPostsMeanwhile
    \/ ContinueTopPostsByTime
    \/ Return

SpecPostImport == InitPostImport /\ [][NextPostImport]_vars

-----------------------------------------------------------------------------
(* Properties of the post API.                                             *)

(* The posts in the window of the trends response and the bucket of each.  *)
TrendWindow ==
    {r \in Rows(posts) : /\ response.request.now - response.request.days <= r.date
                         /\ r.date <= response.request.now}

BucketOf(r) == TrendPeriod(response.request.grouping, r.date)

(* C22: trends reports, for every day, week or month that holds a post of  *)
(* the window, one bucket with the number of its posts, the sum of their   *)
(* likes and the sum of their views, the buckets ascending; a bucket       *)
(* without a post is absent.                                               *)
TrendsReportSums ==
    response.view = "trends" =>
        /\ {response.data[i].date : i \in 1..Len(response.data)}
               = {BucketOf(r) : r \in TrendWindow}
        /\ \A i, j \in 1..Len(response.data) :
               i < j => response.data[i].date < response.data[j].date
        /\ \A i \in 1..Len(response.data) :
               LET rows == {r \in TrendWindow : BucketOf(r) = response.data[i].date}
               IN  /\ response.data[i].post_count = Cardinality(rows)
                   /\ response.data[i].post_count >= 1
                   /\ response.data[i].total_likes = SumBag(LikesOf(rows))
                   /\ response.data[i].total_views = SumBag(ViewsOf(rows))


(* The words of a title as the claim describes them, read from the title   *)
(* as it is stored.  The titles of the model are written with the letters  *)
(* A to Z and a to z, the accented E in both cases, the digits and the     *)
(* underscore; # belongs to a word too, and every other character ends     *)
(* one.                                                                    *)
TitleCapitals == (Ord("A")..Ord("Z")) \cup {CapitalE}

TitleSmalls == (Ord("a")..Ord("z")) \cup {SmallE}

InWord(c) ==
    c \in TitleCapitals \cup TitleSmalls \cup (Ord("0")..Ord("9")) \cup {Ord("_"), Ord("#")}

(* The small letter of a capital is 32 code points after it. *)
Small(c) == IF c \in TitleCapitals THEN c + 32 ELSE c

(* The stretches <<first, last>> of a title that hold a word each: nothing *)
(* but characters of words, and none next to them.                         *)
Stretches(title) ==
    {w \in (1..Len(title)) \X (1..Len(title)) :
        /\ w[1] <= w[2]
        /\ \A j \in w[1]..w[2] : InWord(title[j])
        /\ w[1] = 1 \/ ~InWord(title[w[1] - 1])
        /\ w[2] = Len(title) \/ ~InWord(title[w[2] + 1])}

(* The word of a stretch: what follows its leading # characters, in small  *)
(* letters.                                                                *)
WordOf(title, w) ==
    LET hashes == Cardinality({j \in w[1]..w[2] :
                                  \A k \in w[1]..j : title[k] = Ord("#")})
    IN  [j \in 1..(w[2] - w[1] + 1 - hashes) |-> Small(title[w[1] + hashes + j - 1])]

(* The occurrences <<post, stretch>> of the words that are as long as      *)
(* min_length and no stopword of the request.                              *)
SurvivingWords ==
    LET req == response.request
    IN  {o \in UNION {{<<r, w>> : w \in Stretches(r.title)} : r \in Rows(posts)} :
            /\ Len(WordOf(o[1].title, o[2])) >= req.min_length
            /\ WordOf(o[1].title, o[2]) \notin req.stopwords}

WordAt(occurrence) == WordOf(occurrence[1].title, occurrence[2])

(* C23: keyword_frequency counts for every keyword it lists the            *)
(* occurrences of the word among the words that survive the filter: the    *)
(* words of the titles, in small letters and without their leading #, that *)
(* are as long as min_length and no stopword.  No listed word has a        *)
(* capital letter or begins with #, is too short or is a stopword.  The    *)
(* percentage of a keyword is its count against the number of all          *)
(* surviving occurrences, in hundredths of a percent; the keywords are     *)
(* listed by descending count, at most limit of them; with no surviving    *)
(* word the list is empty.                                                 *)
KeywordsCountSurvivors ==
    response.view = "keyword_frequency" =>
        LET survivors == SurvivingWords
            words == {WordAt(o) : o \in survivors}
        IN  /\ response.total_words = Cardinality(survivors)
            /\ response.unique_words = Cardinality(words)
            /\ Len(response.keywords) <= response.request.limit
            /\ Len(response.keywords) = response.request.limit
                   \/ Len(response.keywords) = Cardinality(words)
            /\ \A i \in 1..Len(response.keywords) :
                   LET k == response.keywords[i]
                   IN  /\ k.count = Cardinality({o \in survivors : WordAt(o) = k.word})
                       /\ k.count >= 1
                       /\ k.word # <<>> /\ Head(k.word) # Ord("#")
                       /\ \A j \in 1..Len(k.word) : k.word[j] \notin TitleCapitals
                       /\ Len(k.word) >= response.request.min_length
                       /\ k.word \notin response.request.stopwords
                       /\ NearestHundredth(k.percentage, 100 * k.count,
                                           Cardinality(survivors))
                       /\ \A j \in 1..Len(response.keywords) :
                              /\ i < j => k.count >= response.keywords[j].count
                              /\ i # j => k.word # response.keywords[j].word
                       /\ \A w \in words :
                              (\A j \in 1..Len(response.keywords) :
                                   response.keywords[j].word # w)
                                  => Cardinality({o \in survivors : WordAt(o) = w})
                                         <= k.count
            /\ survivors = {} => response.keywords = <<>>

(* The scenario of the specification: the titles "fyp viral" and           *)
(* "fyp trending" with min_length 3 give fyp a count of 2 and 50.00 % of   *)
(* the four surviving words.                                               *)
FypHalfSeen ==
    /\ response.view = "keyword_frequency"
    /\ {r.title : r \in Rows(posts)} = {TitleViral, TitleTrending}
    /\ response.request.min_length = 3
    /\ response.total_words = 4
    /\ response.keywords[1] = [word |-> Fyp, count |-> 2, percentage |-> 5000]


(* The period of a post in the window of the top posts response. *)
OwnPeriod(r) == WindowPeriod(response.request.window, r.date)

(* C29: in top_posts_by_time every listed period is one of the 10 most     *)
(* recent periods that hold a post, every post listed under a period has a *)
(* date whose truncation to the window is that period, and with limit >= 1 *)
(* the list of a period is not empty: in a monthly window a post of day 31 *)
(* is listed under its own month and no post under the month before its    *)
(* own.                                                                    *)
TopPostsUnderOwnPeriod ==
    response.view = "top_posts_by_time" =>
        \A i \in 1..Len(response.data) :
            LET listed == response.data[i]
            IN  /\ listed.period \in {OwnPeriod(r) : r \in Rows(posts)}
                /\ Cardinality({OwnPeriod(r) : r \in {x \in Rows(posts) :
                                    OwnPeriod(x) > listed.period}}) < MaxPeriods
                /\ \A k \in 1..Len(listed.top_posts) :
                       OwnPeriod(listed.top_posts[k]) = listed.period
                /\ response.request.limit >= 1 => listed.top_posts # <<>>


(* The posts of an import request as they are processed, and whether the   *)
(* post_id of the i-th was in the table when its turn came: it was there   *)
(* before the request or an earlier post of the request has it.            *)
ImportedIds == [i \in 1..Len(response.request.posts) |-> response.request.posts[i]["id"]]

ExistedWhenProcessed(i) ==
    \/ ImportedIds[i] \in PostIds(pre.posts)
    \/ \E j \in 1..(i - 1) : ImportedIds[j] = ImportedIds[i]

(* C30: the API import reports as updated the imported posts whose post_id *)
(* existed when they were processed and as created those whose post_id did *)
(* not; imported = created + updated and imported + failed is the number   *)
(* of posts of the request.                                                *)
ImportJsonTellsCreatedFromUpdated ==
    (response.view = "import_json" /\ response.status # HttpBadRequest) =>
        LET stats == response.statistics
            n == Len(response.request.posts)
        IN  /\ stats.imported = stats.created + stats.updated
            /\ stats.imported + stats.failed = n
            /\ stats.failed = 0 =>
                  /\ stats.updated = Cardinality({i \in 1..n : ExistedWhenProcessed(i)})
                  /\ stats.created = Cardinality({i \in 1..n : ~ExistedWhenProcessed(i)})

=============================================================================
